---- MODULE Spec2Model ----
(***************************************************************************)
(* State-machine model of the intelligent file assistant: the matcher, the *)
(* decision policy, the single-file and batch handlers, the locked-file    *)
(* retry queue, the batch window and the downloads watcher loop.           *)
(*                                                                         *)
(* Conventions.  A file name is <<stem, ext>> (stem and ext are lowercase  *)
(* alphanumeric runs, the name reads stem.ext); a directory is             *)
(* <<parent, base>>; a file path is <<directory, name>>, so that           *)
(* os.path.basename and os.path.dirname are projections.  Confidences are  *)
(* exact rationals scaled by One (One stands for 1.0); Python's floating   *)
(* point rounding is not modelled.  Time is in whole seconds.              *)
(***************************************************************************)
EXTENDS Integers, Sequences, FiniteSets, TLC

VARIABLES
    now,            \* time.time(), whole seconds
    fs,             \* the file system: set of paths that currently hold a file
    arrivals,       \* number of files the environment has dropped so far
    decisions,      \* table decisions: filename -> folder (None = no row)
    learning,       \* table learning: sequence of rows, oldest first
    ignored,        \* table of ignore marks (filenames)
    patterns,       \* table of ignore patterns
    undoHistory,    \* table undo_history: sequence of rows, oldest first
    queue,          \* LockedFileQueue.queue, a dict in insertion order
    bmFiles,        \* BatchManager.files
    bmTLast,        \* BatchManager.t_last
    lastSeen,       \* DownloadsHandler._last_seen, a dict in insertion order
    sentToBatch,    \* DownloadsHandler._sent_to_batch
    processedFiles, \* processed_files of start_downloads_watcher
    lastScan,       \* last_scan of start_downloads_watcher
    paused,         \* ProcessingState.user_input_in_progress
    pc,             \* where the control loop is
    ctx,            \* locals of the handler the control loop is running
    ev,             \* history: what the last step did (move, match, routing)
    wouldWrite,     \* history: per queued path, what its first move would
                    \* have written had it succeeded
    waited,         \* history: per path, the backoff waits that preceded its
                    \* retried moves since it was last queued
    handedOver,     \* history: per path, how often the watcher has handed it
                    \* to on_new_file_callback since a file last appeared there
    lastEvent       \* history: per tracked path, when the handler last
                    \* received an event for it

storeVars == <<decisions, learning, ignored, patterns, undoHistory>>
bmVars == <<bmFiles, bmTLast>>
watchVars == <<lastSeen, sentToBatch, processedFiles, lastScan, handedOver, lastEvent>>
envVars == <<now, fs, arrivals>>
histVars == <<wouldWrite, waited>>
vars == <<now, fs, arrivals, decisions, learning, ignored, patterns, undoHistory, queue,
          bmFiles, bmTLast, lastSeen, sentToBatch, processedFiles, lastScan,
          paused, pc, ctx, ev, wouldWrite, waited, handedOver, lastEvent>>

-----------------------------------------------------------------------------
(* Bounds of the model and the universe of names.                           *)

MaxArrivals == 2        \* files the environment drops in one behaviour
MaxTimeFlow == 6        \* clock horizon of Spec
TickFlow == 5           \* seconds between two looks at the clock in Spec
MaxTimeLoop == 20       \* clock horizon of SpecLoop
MaxTimeRetry == 140     \* clock horizon of SpecRetry
ArriveBy == 2           \* in SpecRetry files are dropped in the first seconds
MaxLedger == 7          \* rows of the learning ledger in SpecScore
MaxDrops == 12          \* files dropped in one behaviour of SpecHistory
MaxHandOvers == 2       \* hand-overs of a file after which the observer thread
                        \* sends no more duplicate or racing events for it

None == <<>>            \* Python's None / a missing row
NoTime == 0             \* a falsy time stamp: t_last = None, last_scan = 0

Names == {<<"econ", "pdf">>, <<"notes", "zip">>}
Bare == <<"", "">>                  \* the empty dirname of a bare file name
DL == <<"home", "dl">>              \* the watched downloads directory
SrcDirs == {Bare, DL}
\* two bare names, and a path in the downloads directory whose base name is
\* also the base name of another path
AllPaths == SrcDirs \X Names
Paths == {p \in AllPaths : p[1] = Bare \/ p[2][1] = "econ"}

F1 == <<"root", "econ">>
F2 == <<"root", "misc">>
FX == <<"else", "other">>           \* a folder outside every scope
AvailableFolders == <<F1, F2>>      \* enumeration order of the scope scan
Customs == {F2}                     \* what the user may type as a folder
AllFolders == {F1, F2, FX}

Basename(p) == p[2]
Dirname(p) == p[1]
Join(dir, name) == <<dir, name>>
AsPath(name) == Join(Bare, name)    \* a bare file name read as a path

SeqToSet(s) == {s[i] : i \in 1..Len(s)}
Max(a, b) == IF a >= b THEN a ELSE b
Min(a, b) == IF a <= b THEN a ELSE b

RECURSIVE Gcd(_, _)
Gcd(a, b) == IF b = 0 THEN a ELSE Gcd(b, a % b)
RECURSIVE LcmUpTo(_)
LcmUpTo(n) == IF n <= 1 THEN 1 ELSE (LcmUpTo(n - 1) * n) \div Gcd(LcmUpTo(n - 1), n)

LedgerCap == Max(2 * MaxArrivals, MaxLedger)  \* no ledger of the model is longer
RateDen == LcmUpTo(LedgerCap)       \* common denominator of the folder rates
One == 100000 * RateDen             \* the confidence 1.0
Pct(n) == n * (One \div 100)        \* n percent as a confidence

-----------------------------------------------------------------------------
(* storage: the decisions, learning and ignore tables.                      *)

GetDecision(decs, filename) == decs[filename]

SaveDecision(decs, filename, folder) == [decs EXCEPT ![filename] = folder]

LearnRow(filename, folder, action) ==
    [filename |-> filename, folder |-> folder, action |-> action]

SaveLearning(ledger, filename, folder, action) ==
    Append(ledger, LearnRow(filename, folder, action))

SaveIgnore(marks, filename) == marks \cup {filename}

IsFileIgnored(marks, filename) == filename \in marks

\* an ignore pattern "*.ext" is kept as ext; fnmatch against the bare filename
MatchesIgnorePattern(pats, filename) == \E pat \in pats : filename[2] = pat

SaveIgnorePattern(pats, pat) == pats \cup {pat}

MaxUndoHistory == 10

\* the id of the next row of undo_history
NextUndoId(history) ==
    IF history = <<>> THEN 1 ELSE history[Len(history)].id + 1

\* an append that never trims
AppendUndoEntryUntrimmed(history, filename, src, dst) ==
    Append(history, [id |-> NextUndoId(history), filename |-> filename,
                     src |-> src, dst |-> dst])

\* appendUndoEntry(filename, src, dst), trimmed to the newest MaxUndoHistory
AppendUndoEntry(history, filename, src, dst) ==
    LET all == Append(history, [id |-> NextUndoId(history), filename |-> filename,
                                src |-> src, dst |-> dst])
    IN IF Len(all) > MaxUndoHistory THEN SubSeq(all, 2, Len(all)) ELSE all

\* an undo that leaves its entry in the history
DeleteUndoEntryKeeps(history, id) == history

DeleteUndoEntry(history, id) == SelectSeq(history, LAMBDA e : e.id # id)

DeleteDecision(decs, filename) == [decs EXCEPT ![filename] = None]

-----------------------------------------------------------------------------
(* agent/learning_logic.py                                                  *)

CountRows(ledger, filename, folder, action) ==
    Cardinality({i \in 1..Len(ledger) :
        /\ ledger[i].filename = filename
        /\ ledger[i].folder = folder
        /\ ledger[i].action = action})

GetLearningStats(ledger, filename, folder) ==
    LET a == CountRows(ledger, filename, folder, "accept")
        r == CountRows(ledger, filename, folder, "choose")
        g == CountRows(ledger, filename, folder, "ignore")
    IN [accepts |-> a, rejects |-> r, ignores |-> g, total |-> a + r + g]

CountFolderRows(ledger, folder, action) ==
    Cardinality({i \in 1..Len(ledger) :
        ledger[i].folder = folder /\ ledger[i].action = action})

\* the rates are kept as counts over total_suggestions
GetFolderLearningPattern(ledger, folder) ==
    LET a == CountFolderRows(ledger, folder, "accept")
        r == CountFolderRows(ledger, folder, "choose")
        g == CountFolderRows(ledger, folder, "ignore")
    IN [total_suggestions |-> a + r + g, accepts |-> a, rejects |-> r, ignores |-> g]

Clamp01(x) == Max(0, Min(One, x))

\* an adjustment whose boost and decay are not capped at 0.50
ApplyLearningAdjustmentUncapped(ledger, base, filename, folder) ==
    LET stats == GetLearningStats(ledger, filename, folder)
        up == IF stats.accepts > 0 THEN stats.accepts * Pct(10) ELSE 0
        down == IF stats.rejects > 0 THEN stats.rejects * Pct(40) ELSE 0
    IN IF stats.total = 0 THEN base ELSE Clamp01(base + up - down)

ApplyLearningAdjustment(ledger, base, filename, folder) ==
    LET stats == GetLearningStats(ledger, filename, folder)
        up == IF stats.accepts > 0 THEN Min(stats.accepts * Pct(10), Pct(50)) ELSE 0
        down == IF stats.rejects > 0 THEN Min(stats.rejects * Pct(40), Pct(50)) ELSE 0
    IN IF stats.total = 0 THEN base ELSE Clamp01(base + up - down)

ApplyFolderReputationBoost(ledger, confidence, folder) ==
    LET pattern == GetFolderLearningPattern(ledger, folder)
        \* (accept_rate - reject_rate) * 0.05
        adjustment == ((pattern.accepts - pattern.rejects) * Pct(5))
                          \div pattern.total_suggestions
    IN IF pattern.total_suggestions < 5 THEN confidence
       ELSE Clamp01(confidence + adjustment)

\* the two passes in the other order
GetConfidenceReputationFirst(ledger, base, filename, folder) ==
    ApplyLearningAdjustment(ledger,
        ApplyFolderReputationBoost(ledger, base, folder), filename, folder)

GetConfidenceWithLearning(ledger, base, filename, folder) ==
    ApplyFolderReputationBoost(ledger,
        ApplyLearningAdjustment(ledger, base, filename, folder), folder)

-----------------------------------------------------------------------------
(* agent/confidence.py and the decision policy.  Scores are in units of One,*)
(* file_type_weight in tenths.                                              *)

\* a combiner that lets the file type scale a remembered score too
ComputeConfidenceScaled(memory, token, fuzzy, content, ftw) ==
    LET blend == (4 * token + 3 * fuzzy + 3 * content) \div 10
        combined == IF memory > 0 THEN memory
                    ELSE IF fuzzy >= Pct(90) /\ token >= Pct(50)
                    THEN Max(blend, Pct(75)) ELSE blend
        type_factor == 70 + 3 * ftw
    IN Min((combined \div 100) * type_factor, One)

\* an obvious-match boost that sets the blend to 0.75 instead of raising it
ComputeConfidenceFlatBoost(memory, token, fuzzy, content, ftw) ==
    LET blend == (4 * token + 3 * fuzzy + 3 * content) \div 10
        combined == IF fuzzy >= Pct(90) /\ token >= Pct(50)
                    THEN Pct(75) ELSE blend
        type_factor == 70 + 3 * ftw
    IN IF memory > 0 THEN memory
       ELSE Min((combined \div 100) * type_factor, One)

ComputeConfidence(memory, token, fuzzy, content, ftw) ==
    LET blend == (4 * token + 3 * fuzzy + 3 * content) \div 10
        combined == IF fuzzy >= Pct(90) /\ token >= Pct(50)
                    THEN Max(blend, Pct(75)) ELSE blend
        \* type_factor = 0.7 + 0.3 * file_type_weight, in hundredths
        type_factor == 70 + 3 * ftw
    IN IF memory > 0 THEN memory
       ELSE Min((combined \div 100) * type_factor, One)

AutoMoveTh == Pct(85)
SuggestTh == Pct(40)

\* a policy whose upper boundary is exclusive
DecideActionStrict(confidence, autoTh, suggestTh) ==
    IF confidence > autoTh THEN "auto_move"
    ELSE IF confidence >= suggestTh THEN "ask"
    ELSE "ignore"

DecideAction(confidence, autoTh, suggestTh) ==
    IF confidence >= autoTh THEN "auto_move"
    ELSE IF confidence >= suggestTh THEN "ask"
    ELSE "ignore"

-----------------------------------------------------------------------------
(* agent/matcher.py.  A text is the sequence of its alphanumeric runs.  The *)
(* classifier, rapidfuzz and the content extractors are outside the        *)
(* program: what they answer is an input of match.                         *)

Tokenize(text) == SeqToSet(text)

\* the Jaccard index alone, without the coverage bonus
TokenOverlapScoreJaccard(fileText, folderText) ==
    LET file_tokens == Tokenize(fileText)
        folder_tokens == Tokenize(folderText)
        overlap == Cardinality(file_tokens \cap folder_tokens)
        union == Cardinality(file_tokens \cup folder_tokens)
    IN IF folder_tokens = {} \/ file_tokens = {} THEN 0
       ELSE (overlap * One) \div union

TokenOverlapScore(fileText, folderText) ==
    LET file_tokens == Tokenize(fileText)
        folder_tokens == Tokenize(folderText)
        overlap == Cardinality(file_tokens \cap folder_tokens)
        union == Cardinality(file_tokens \cup folder_tokens)
        jaccard == (overlap * One) \div union
        coverage == (overlap * One) \div Cardinality(folder_tokens)
    IN IF folder_tokens = {} \/ file_tokens = {} THEN 0
       ELSE Max(jaccard, coverage)

FileTypeWeight(name) ==
    CASE name[2] = "pdf" -> 10
      [] name[2] \in {"docx", "pptx", "ipynb"} -> 9
      [] name[2] \in {"png", "jpg"} -> 2
      [] name[2] = "zip" -> 4
      [] OTHER -> 8

FolderText(folder) == <<Basename(folder)>>

\* What a call of the classifier comes to.  None: the request raised
\* (timeout, network failure, a payload of the wrong shape); the one-element
\* answers are the other ways to no result; <<folder name, percent>> is a
\* parsed payload, with percent 0 when the payload has no "confidence".
LlmRaised == None
LlmDisabled == <<"disabled">>
LlmNoKey == <<"nokey">>
LlmInvalidJson == <<"unparsable">>
LlmFailures == {LlmRaised, LlmDisabled, LlmNoKey, LlmInvalidJson}

RECURSIVE FindFolder(_, _)
FindFolder(i, folderName) ==
    IF i > Len(AvailableFolders) THEN None
    ELSE IF Basename(AvailableFolders[i]) = folderName THEN AvailableFolders[i]
    ELSE FindFolder(i + 1, folderName)

\* a classifier wrapper that takes an unknown folder name for the first
\* candidate
LlmClassifyLenient(resp) ==
    IF resp \in LlmFailures THEN None
    ELSE LET matched == FindFolder(1, resp[1])
         IN <<IF matched = None THEN AvailableFolders[1] ELSE matched, Pct(resp[2])>>

\* a classifier wrapper that trusts the name the model sent: an unknown name
\* is taken for a folder of that name under the scope root
LlmClassifyTrusting(resp) ==
    IF resp \in LlmFailures THEN None
    ELSE LET matched == FindFolder(1, resp[1])
         IN <<IF matched = None THEN Join(Dirname(AvailableFolders[1]), resp[1])
              ELSE matched, Pct(resp[2])>>

LlmClassify(resp) ==
    IF resp \in LlmFailures THEN None
    ELSE LET matched == FindFolder(1, resp[1])
         IN IF matched = None THEN None
            ELSE <<matched, Pct(resp[2])>>

MemoryResult(folder) ==
    [folder |-> folder, confidence |-> One, memory_score |-> One,
     token_score |-> 0, fuzzy_score |-> 0, content_score |-> 0,
     file_type_weight |-> 10, method |-> "memory", stages |-> <<"memory">>]

LlmResult(ledger, filename, llm) ==
    [folder |-> llm[1],
     confidence |-> GetConfidenceWithLearning(ledger, llm[2], filename, llm[1]),
     memory_score |-> 0, token_score |-> 0, fuzzy_score |-> 0,
     content_score |-> llm[2], file_type_weight |-> 10, method |-> "llm",
     stages |-> <<"memory", "llm">>]

NoBest == [score |-> 0, folder |-> None, token |-> 0, fuzzy |-> 0, content |-> 0]

\* the scores of one candidate; inp.fuzzy and inp.cfuzzy are rapidfuzz's
\* answers (percent) per folder, inp.content the extracted title or OCR text
Candidate(filename, folder, inp) ==
    LET token_sc == TokenOverlapScore(filename, FolderText(folder))
        fuzzy_sc == Pct(inp.fuzzy[folder])
        content_sc == IF inp.content # <<>>
                      THEN Max(TokenOverlapScore(inp.content, FolderText(folder)),
                               Pct(inp.cfuzzy[folder]))
                      ELSE 0
        score == Max(token_sc, Max((fuzzy_sc * 7) \div 10, content_sc))
    IN [score |-> (score \div 10) * FileTypeWeight(filename), folder |-> folder,
        token |-> token_sc, fuzzy |-> fuzzy_sc, content |-> content_sc]

RECURSIVE ScanLastWins(_, _, _, _)
\* a scan in which a later candidate takes over on an equal score
ScanLastWins(i, best, filename, inp) ==
    IF i > Len(AvailableFolders) THEN best
    ELSE LET c == Candidate(filename, AvailableFolders[i], inp)
         IN ScanLastWins(i + 1, IF c.score >= best.score THEN c ELSE best,
                         filename, inp)

RECURSIVE Scan(_, _, _, _)
Scan(i, best, filename, inp) ==
    IF i > Len(AvailableFolders) THEN best
    ELSE LET c == Candidate(filename, AvailableFolders[i], inp)
         IN Scan(i + 1, IF c.score > best.score THEN c ELSE best, filename, inp)

StringResult(ledger, filename, inp) ==
    LET best == Scan(1, NoBest, filename, inp)
        base == ComputeConfidence(0, best.token, best.fuzzy, best.content,
                                  FileTypeWeight(filename))
    IN [folder |-> IF best.score > 0 THEN best.folder ELSE None,
        confidence |-> IF best.folder # None
                       THEN GetConfidenceWithLearning(ledger, base, filename, best.folder)
                       ELSE base,
        memory_score |-> 0, token_score |-> best.token, fuzzy_score |-> best.fuzzy,
        content_score |-> best.content, file_type_weight |-> FileTypeWeight(filename),
        method |-> "string", stages |-> <<"memory", "llm", "string">>]

\* a matcher that asks the classifier before it looks at the decisions
MatchClassifierFirst(decs, ledger, filename, inp) ==
    LET row == GetDecision(decs, filename)
        llm == LlmClassify(inp.llm)
    IN IF llm # None /\ llm[2] > 0 THEN LlmResult(ledger, filename, llm)
       ELSE IF row # None THEN MemoryResult(row)
       ELSE StringResult(ledger, filename, inp)

\* a matcher that runs the learning adjustment over a remembered folder
MatchMemoryAdjusted(decs, ledger, filename, inp) ==
    LET row == GetDecision(decs, filename)
        llm == LlmClassify(inp.llm)
    IN IF row # None
       THEN [MemoryResult(row) EXCEPT
                !.confidence = GetConfidenceWithLearning(ledger, One, filename, row)]
       ELSE IF llm # None /\ llm[2] > 0 THEN LlmResult(ledger, filename, llm)
       ELSE StringResult(ledger, filename, inp)

Match(decs, ledger, filename, inp) ==
    LET row == GetDecision(decs, filename)
        llm == LlmClassify(inp.llm)
    IN IF row # None THEN MemoryResult(row)
       ELSE IF llm # None /\ llm[2] > 0 THEN LlmResult(ledger, filename, llm)
       ELSE StringResult(ledger, filename, inp)


-----------------------------------------------------------------------------
(* The move primitive: move(src, dstFolder) -> success | locked |          *)
(* duplicate | error.  Which of them the file system answers is an input;  *)
(* MoveAllowed says which answers a file system state permits.             *)

Outcomes == {"success", "locked", "duplicate", "error"}

Renamed(name) == <<name[1] \o "_1", name[2]>>

Destination(files, path, folder) ==
    IF Join(folder, Basename(path)) \in files
    THEN Join(folder, Renamed(Basename(path)))
    ELSE Join(folder, Basename(path))

MoveAllowed(files, path, folder, out) ==
    /\ out \in Outcomes
    /\ path \notin files => out = "error"
    /\ out = "duplicate" => Join(folder, Basename(path)) \in files
    /\ out = "success" => Destination(files, path, folder) \notin files

MoveFile(files, path, folder, out) ==
    IF out = "success"
    THEN (files \ {path}) \cup {Destination(files, path, folder)}
    ELSE files

\* the undo history after move_file: a move that was made is recorded
RecordMove(history, files, path, folder, out) ==
    IF out = "success"
    THEN AppendUndoEntry(history, Basename(path), path, Destination(files, path, folder))
    ELSE history

-----------------------------------------------------------------------------
(* agent/retry_queue.py.  The dict is a sequence of entries in insertion   *)
(* order, at most one per file_path.                                       *)

MaxRetries == 5

UserChoice(action, folder, suggested) ==
    [action |-> action, folder |-> folder, suggested |-> suggested]

QEntry(path, folder, attempts, last, choice) ==
    [file_path |-> path, folder |-> folder, attempts |-> attempts,
     last_retry |-> last, user_choice |-> choice]

QIndex(q, path) == {i \in 1..Len(q) : q[i].file_path = path}

QHas(q, path) == QIndex(q, path) # {}

QGet(q, path) == q[CHOOSE i \in QIndex(q, path) : TRUE]

\* dict[key] = value keeps the position of a key that is already present
QAdd(q, path, folder, choice, t) ==
    IF QHas(q, path)
    THEN [i \in 1..Len(q) |->
             IF q[i].file_path = path THEN QEntry(path, folder, 0, t, choice) ELSE q[i]]
    ELSE Append(q, QEntry(path, folder, 0, t, choice))

RECURSIVE Pow2(_)
Pow2(n) == IF n = 0 THEN 1 ELSE 2 * Pow2(n - 1)

\* a backoff without its 60 second ceiling
WaitTimeUncapped(attempts) == 5 * Pow2(attempts)

WaitTime(attempts) == Min(5 * Pow2(attempts), 60)

IsReadyEntry(e, t) == t - e.last_retry >= WaitTime(e.attempts)

GetReadyFiles(q, t) ==
    SelectSeq(q, LAMBDA e : IsReadyEntry(e, t))

MarkRetry(q, path, t) ==
    [i \in 1..Len(q) |->
        IF q[i].file_path = path
        THEN [q[i] EXCEPT !.attempts = @ + 1, !.last_retry = t]
        ELSE q[i]]

QRemove(q, path) == SelectSeq(q, LAMBDA e : e.file_path # path)

\* a queue that gives up only once the counter has passed max_retries
ShouldGiveUpLate(q, path) ==
    IF QHas(q, path) THEN QGet(q, path).attempts > MaxRetries ELSE FALSE

ShouldGiveUp(q, path) ==
    IF QHas(q, path) THEN QGet(q, path).attempts >= MaxRetries ELSE FALSE

-----------------------------------------------------------------------------
(* agent/batch.py                                                          *)

BatchWindowSeconds == 8

AddFile(files, path) == Append(files, path)

\* a window that needs more than window_seconds to close
IsReadyStrict(files, tLast, t) ==
    IF files = <<>> \/ tLast = NoTime THEN FALSE
    ELSE t - tLast > BatchWindowSeconds

\* a window that only closes on a burst of two files or more
IsReadyBurst(files, tLast, t) ==
    IF Len(files) < 2 \/ tLast = NoTime THEN FALSE
    ELSE t - tLast >= BatchWindowSeconds

IsReady(files, tLast, t) ==
    IF files = <<>> \/ tLast = NoTime THEN FALSE
    ELSE t - tLast >= BatchWindowSeconds

\* a pop_batch that forgets to clear the list it returns
PopBatchKeeps(files) == [batch |-> files, files |-> files, t_last |-> NoTime]

\* the list returned, and files and t_last afterwards
PopBatch(files) == [batch |-> files, files |-> <<>>, t_last |-> NoTime]

IsSingle(files) == Len(files) = 1


-----------------------------------------------------------------------------
(* watcher/download_watcher.py: DownloadsHandler.  _last_seen is a         *)
(* sequence of entries [path, t] in insertion order.                        *)

DebounceSeconds == 2
ScanEvery == 3
RecentWindow == 60

Tracked(seen, path) == \E i \in 1..Len(seen) : seen[i].path = path

OnCreated(seen, path, t) ==
    IF Tracked(seen, path) THEN seen ELSE Append(seen, [path |-> path, t |-> t])

OnModified(seen, path, t) ==
    [i \in 1..Len(seen) |->
        IF seen[i].path = path THEN [seen[i] EXCEPT !.t = t] ELSE seen[i]]

Stable(e, t) == t - e.t >= DebounceSeconds

\* process_ready_files: what stays tracked, and the paths handed to
\* on_new_file_callback, in order
ProcessReadyFiles(seen, files, t) ==
    LET ready == SelectSeq(seen, LAMBDA e : Stable(e, t) /\ e.path \in files)
    IN [seen |-> SelectSeq(seen, LAMBDA e : ~Stable(e, t)),
        ready |-> [i \in 1..Len(ready) |-> ready[i].path]]

\* the periodic scan of the downloads directory; listing is os.listdir's
\* order.  No file of the model is older than the clock, which starts at 1.
ScanDownloads(seen, files, processed, sent, listing, t) ==
    LET fresh == SelectSeq(listing, LAMBDA f :
                     /\ f \in files
                     /\ f \notin processed
                     /\ f \notin sent
                     /\ t - 1 <= RecentWindow
                     /\ ~Tracked(seen, f))
    IN seen \o [i \in 1..Len(fresh) |-> [path |-> fresh[i], t |-> t]]

-----------------------------------------------------------------------------
(* Inputs of the handlers.                                                  *)

LlmResponses == {None, <<"econ", 90>>, <<"misc", 60>>, <<"zed", 90>>}

NoFuzzy == [f \in {F1, F2} |-> 0]
FuzzyTables == {NoFuzzy, [f \in {F1, F2} |-> IF f = F1 THEN 100 ELSE 0]}
Contents == {<<>>, <<"econ">>}

MatchInputs ==
    {[llm |-> l, fuzzy |-> NoFuzzy, cfuzzy |-> NoFuzzy, content |-> <<>>] :
        l \in LlmResponses \ {None}}
    \cup {[llm |-> None, fuzzy |-> fz, cfuzzy |-> NoFuzzy, content |-> c] :
        fz \in FuzzyTables, c \in Contents}

-----------------------------------------------------------------------------
(* Control state.  pc = "top": the control loop is at the head of an      *)
(* iteration; "retry": the batch part of the iteration is over and         *)
(* retry_callback is next; "sleep": the iteration is over (time.sleep(1)); *)
(* the other values are places inside a handler.                           *)

IdleCtx ==
    [batch |-> <<>>, i |-> 0, path |-> None, folder |-> None,
     suggestions |-> <<>>, ud |-> <<>>, j |-> 0, ready |-> <<>>, ret |-> ""]

NoEv ==
    [op |-> "", path |-> None, target |-> None, outcome |-> "none",
     match |-> <<>>, mem |-> None, batch |-> <<>>, entry |-> <<>>]

MoveEv(op, path, target, out) ==
    [NoEv EXCEPT !.op = op, !.path = path, !.target = target, !.outcome = out]

NoWould == [p \in AllPaths |-> None]

Init ==
    /\ now = 1
    /\ fs = {}
    /\ arrivals = 0
    /\ decisions = [n \in Names |-> None]
    /\ learning = <<>>
    /\ ignored = {}
    /\ patterns = {}
    /\ undoHistory = <<>>
    /\ queue = <<>>
    /\ bmFiles = <<>>
    /\ bmTLast = NoTime
    /\ lastSeen = <<>>
    /\ sentToBatch = {}
    /\ processedFiles = {}
    /\ lastScan = NoTime
    /\ paused = FALSE
    /\ pc = "top"
    /\ ctx = IdleCtx
    /\ ev = NoEv
    /\ wouldWrite = NoWould
    /\ waited = [p \in AllPaths |-> <<>>]
    /\ handedOver = [p \in AllPaths |-> 0]
    /\ lastEvent = [p \in AllPaths |-> NoTime]

-----------------------------------------------------------------------------
(* The environment: files are removed, the clock advances (a file is       *)
(* dropped by FlowArrive in Spec and by Created in SpecLoop).  Its steps    *)
(* are taken where the control loop waits, not in the middle of a handler:  *)
(* what a handler sees of the file system in between is the outcome of its *)
(* moves, which is an input of each move.                                  *)

Vanish(p) ==
    /\ p \in fs
    /\ fs' = fs \ {p}
    /\ ev' = NoEv
    /\ UNCHANGED <<now, arrivals, storeVars, queue, bmVars, watchVars, paused, pc,
                   ctx, histVars>>

Tick(horizon, step) ==
    /\ now + step <= horizon
    /\ now' = now + step
    /\ ev' = NoEv
    /\ UNCHANGED <<fs, arrivals, storeVars, queue, bmVars, watchVars, paused, pc,
                   ctx, histVars>>

-----------------------------------------------------------------------------
(* utils/user_input.py                                                      *)

PauseForInput == TRUE       \* user_input_in_progress after pause_for_input
ResumeProcessing == FALSE   \* user_input_in_progress after resume_processing

\* get_user_input: the flag while input() blocks, and after it returned or
\* raised (the finally clause)
FlagDuringInput == PauseForInput

\* a get_user_input without its finally clause
FlagAfterInputNoFinally(raised) ==
    IF raised THEN PauseForInput ELSE ResumeProcessing

FlagAfterInput(raised) == ResumeProcessing

-----------------------------------------------------------------------------
(* main.py: the move-and-record blocks of the handlers.                     *)

\* a handler that also takes a skipped duplicate for a move that was made
MoveSucceededOrSkipped(out) == out \in {"success", "duplicate"}

MoveSucceeded(out) == out = "success"

MoveLocked(out) == out = "locked"

\* success, error = move_file(path, target); on success save_decision and
\* save_learning(filename, suggested, action); on locked locked_files.add
MoveAndLearn(path, target, suggested, action, choice, out) ==
    LET filename == Basename(path) IN
    /\ MoveAllowed(fs, path, target, out)
    /\ fs' = MoveFile(fs, path, target, out)
    /\ decisions' = IF MoveSucceeded(out)
                    THEN SaveDecision(decisions, filename, target) ELSE decisions
    /\ learning' = IF MoveSucceeded(out)
                   THEN SaveLearning(learning, filename, suggested, action)
                   ELSE learning
    /\ undoHistory' = RecordMove(undoHistory, fs, path, target, out)
    /\ queue' = IF ~MoveSucceeded(out) /\ MoveLocked(out)
                THEN QAdd(queue, path, target, choice, now) ELSE queue
    /\ wouldWrite' = IF ~MoveSucceeded(out) /\ MoveLocked(out)
                     THEN [wouldWrite EXCEPT ![path] = <<target, suggested, action>>]
                     ELSE wouldWrite
    /\ waited' = IF ~MoveSucceeded(out) /\ MoveLocked(out)
                 THEN [waited EXCEPT ![path] = <<>>]
                 ELSE waited

NoMove == UNCHANGED <<fs, decisions, learning, undoHistory, queue, histVars>>

\* the user_choice dicts the handlers store with a locked file
SingleAcceptChoice(folder) == UserChoice("accept", folder, None)
SingleChooseChoice(custom, suggested) == UserChoice("choose", custom, None)
BatchAcceptChoice(folder) == UserChoice("accept", folder, None)
BatchChooseChoice(chosen, suggested) == UserChoice("choose", chosen, suggested)


loopFrame == <<now, arrivals, bmFiles, bmTLast, lastSeen, sentToBatch,
               processedFiles, lastScan, handedOver, lastEvent>>

\* the place the control loop goes to when a handler returns
Return ==
    /\ pc' = "retry"
    /\ ctx' = IdleCtx

\* the loop ends: an exception left the handler (EOFError, KeyboardInterrupt)
Stop ==
    /\ pc' = "stopped"
    /\ ctx' = IdleCtx

-----------------------------------------------------------------------------
(* main.py: ask_ignore_pattern.  For a name stem.ext the only pattern      *)
(* offered is *.ext, so the answers are "1" (take it) and anything else.   *)

PromptAnswers == {"1", "0", "raise"}

\* called after save_ignore; ret is where the caller continues
AskIgnorePattern(ret) ==
    /\ paused' = FlagDuringInput
    /\ pc' = "ignore_pattern"
    /\ ctx' = [ctx EXCEPT !.ret = ret]

IgnorePatternReturn(ans) ==
    /\ pc = "ignore_pattern"
    /\ ans \in PromptAnswers
    /\ paused' = FlagAfterInput(ans = "raise")
    /\ patterns' = IF ans = "1"
                   THEN SaveIgnorePattern(patterns, Basename(ctx.path)[2])
                   ELSE patterns
    /\ IF ans = "raise" THEN Stop
       ELSE IF ctx.ret = "stage2"
       THEN IF ctx.j < Len(ctx.suggestions)
            THEN pc' = "stage2" /\ ctx' = [ctx EXCEPT !.j = @ + 1, !.ret = ""]
            ELSE Return
       ELSE Return
    /\ ev' = [NoEv EXCEPT !.op = "ignore_pattern"]
    /\ UNCHANGED <<fs, decisions, learning, undoHistory, ignored, queue, histVars,
                   loopFrame>>

-----------------------------------------------------------------------------
(* main.py: handle_single_file                                              *)

SingleChoices == {"s", "o", "i", "x", "raise"}   \* "x": any other answer
CustomAnswers == Customs \cup {None}            \* None: the empty answer

\* the part of handle_single_file after "result = match(file_path, scopes)"
SingleOnResult(p, result, out) ==
    /\ IF result.folder = None
       THEN NoMove /\ Return /\ UNCHANGED paused
       ELSE IF DecideAction(result.confidence, AutoMoveTh, SuggestTh) = "auto_move"
       THEN /\ MoveAndLearn(p, result.folder, result.folder, "accept",
                            SingleAcceptChoice(result.folder), out)
            /\ Return
            /\ UNCHANGED paused
       ELSE IF DecideAction(result.confidence, AutoMoveTh, SuggestTh) = "ask"
       THEN /\ NoMove
            /\ paused' = FlagDuringInput
            /\ pc' = "single_ask"
            /\ ctx' = [IdleCtx EXCEPT !.path = p, !.folder = result.folder]
       ELSE NoMove /\ Return /\ UNCHANGED paused
    /\ ev' = [NoEv EXCEPT !.op = "single", !.path = p, !.batch = <<p>>,
                          !.match = <<result>>,
                          !.mem = GetDecision(decisions, Basename(p)),
                          !.target = result.folder,
                          !.outcome = IF result.folder # None
                                         /\ DecideAction(result.confidence, AutoMoveTh,
                                                         SuggestTh) = "auto_move"
                                      THEN out ELSE "none"]
    /\ UNCHANGED <<ignored, patterns>>

\* a single-file flow that looks at the ignore marks only, not the patterns
HandleSingleFileMarksOnly(p, m, out) ==
    IF IsFileIgnored(ignored, Basename(p))
    THEN /\ NoMove /\ Return
         /\ ev' = [NoEv EXCEPT !.op = "single", !.path = p, !.batch = <<p>>]
         /\ UNCHANGED <<ignored, patterns, paused>>
    ELSE \E result \in {Match(decisions, learning, Basename(p), m)} :
             SingleOnResult(p, result, out)

HandleSingleFile(p, m, out) ==
    IF IsFileIgnored(ignored, Basename(p))
    THEN /\ NoMove /\ Return
         /\ ev' = [NoEv EXCEPT !.op = "single", !.path = p, !.batch = <<p>>]
         /\ UNCHANGED <<ignored, patterns, paused>>
    ELSE IF MatchesIgnorePattern(patterns, Basename(p))
    THEN /\ ignored' = SaveIgnore(ignored, Basename(p))
         /\ NoMove /\ Return
         /\ ev' = [NoEv EXCEPT !.op = "single", !.path = p, !.batch = <<p>>]
         /\ UNCHANGED <<patterns, paused>>
    ELSE \E result \in {Match(decisions, learning, Basename(p), m)} :
             SingleOnResult(p, result, out)

SingleAskReturn(choice, out) ==
    /\ pc = "single_ask"
    /\ choice \in SingleChoices
    /\ UNCHANGED <<patterns, loopFrame>>
    /\ IF choice = "s"
       THEN /\ MoveAndLearn(ctx.path, ctx.folder, ctx.folder, "accept",
                            SingleAcceptChoice(ctx.folder), out)
            /\ paused' = FlagAfterInput(FALSE)
            /\ Return
            /\ ev' = MoveEv("single_accept", ctx.path, ctx.folder, out)
            /\ UNCHANGED ignored
       ELSE IF choice = "o"
       THEN /\ NoMove
            /\ paused' = FlagDuringInput
            /\ pc' = "single_custom"
            /\ ctx' = ctx
            /\ ev' = [NoEv EXCEPT !.op = "single_other"]
            /\ UNCHANGED ignored
       ELSE IF choice = "i"
       THEN /\ NoMove
            /\ ignored' = SaveIgnore(ignored, Basename(ctx.path))
            /\ AskIgnorePattern("")
            /\ ev' = [NoEv EXCEPT !.op = "single_ignore"]
       ELSE /\ NoMove
            /\ paused' = FlagAfterInput(choice = "raise")
            /\ IF choice = "raise" THEN Stop ELSE Return
            /\ ev' = [NoEv EXCEPT !.op = "single_none"]
            /\ UNCHANGED ignored

SingleCustomReturn(custom, raised, out) ==
    /\ pc = "single_custom"
    /\ custom \in CustomAnswers
    /\ paused' = FlagAfterInput(raised)
    /\ UNCHANGED <<ignored, patterns, loopFrame>>
    /\ IF raised
       THEN /\ NoMove /\ Stop
            /\ ev' = [NoEv EXCEPT !.op = "single_none"]
       ELSE IF custom # None
       THEN /\ MoveAndLearn(ctx.path, custom, ctx.folder, "choose",
                            SingleChooseChoice(custom, ctx.folder), out)
            /\ Return
            /\ ev' = MoveEv("single_choose", ctx.path, custom, out)
       ELSE /\ NoMove /\ Return
            /\ ev' = [NoEv EXCEPT !.op = "single_none"]

-----------------------------------------------------------------------------
(* main.py: process_locked_retries, one ready entry per step                *)

ReadyItem(e) == [file_path |-> e.file_path, folder |-> e.folder,
                 user_choice |-> e.user_choice]

ReadyItems(q, t) ==
    LET ready == GetReadyFiles(q, t)
    IN [i \in 1..Len(ready) |-> ReadyItem(ready[i])]

RetryStart ==
    /\ pc = "retry"
    /\ LET ready == ReadyItems(queue, now)
       IN IF ready = <<>>
          THEN pc' = "sleep" /\ ctx' = IdleCtx
          ELSE pc' = "retrying" /\ ctx' = [IdleCtx EXCEPT !.ready = ready, !.j = 1]
    /\ ev' = [NoEv EXCEPT !.op = "retry_start"]
    /\ UNCHANGED <<fs, storeVars, queue, paused, histVars, loopFrame>>

\* "suggested = user_choice.get('suggested', folder)"
ReplaySuggested(choice, folder) ==
    IF choice.suggested = None THEN folder ELSE choice.suggested

\* a replay that rewrites the file's latest row instead of adding one
ReplayLearningInPlace(ledger, filename, folder, choice) ==
    LET mine == {i \in 1..Len(ledger) : ledger[i].filename = filename}
        last == CHOOSE i \in mine : \A j \in mine : j <= i
    IN IF choice.action \notin {"accept", "choose"} THEN ledger
       ELSE IF mine = {} THEN SaveLearning(ledger, filename, folder, choice.action)
       ELSE [ledger EXCEPT ![last] = LearnRow(filename, folder, choice.action)]

\* the learning row written when a retried move succeeds
ReplayLearning(ledger, filename, folder, choice) ==
    IF choice.action = "accept"
    THEN SaveLearning(ledger, filename, folder, "accept")
    ELSE IF choice.action = "choose"
    THEN SaveLearning(ledger, filename, ReplaySuggested(choice, folder), "choose")
    ELSE ledger

ReplayDecision(decs, filename, folder, choice) ==
    IF choice.action \in {"accept", "choose"}
    THEN SaveDecision(decs, filename, folder) ELSE decs

\* a retry pass that counts every failure as a renewed lock
QueueAfterFailureAllLocked(q, path, out, t) ==
    LET q1 == MarkRetry(q, path, t)
    IN IF ShouldGiveUp(q1, path) THEN QRemove(q1, path) ELSE q1

\* a retry pass that never gives a locked file up
QueueAfterFailureKeeps(q, path, out, t) ==
    IF MoveLocked(out) THEN MarkRetry(q, path, t) ELSE QRemove(q, path)

\* the queue after a retried move that did not succeed
\* a retry pass that asks should_give_up before it counts the failed attempt
QueueAfterFailureAsksFirst(q, path, out, t) ==
    IF MoveLocked(out)
    THEN IF ShouldGiveUp(q, path) THEN QRemove(q, path) ELSE MarkRetry(q, path, t)
    ELSE QRemove(q, path)

QueueAfterFailure(q, path, out, t) ==
    IF MoveLocked(out)
    THEN LET q1 == MarkRetry(q, path, t)
         IN IF ShouldGiveUp(q1, path) THEN QRemove(q1, path) ELSE q1
    ELSE QRemove(q, path)

RetryStep(out) ==
    /\ pc = "retrying"
    /\ LET item == ctx.ready[ctx.j]
           path == item.file_path
           folder == item.folder
           filename == Basename(path)
       IN /\ IF path \notin fs
             THEN /\ queue' = QRemove(queue, path)
                  /\ ev' = [MoveEv("retry", path, folder, "missing")
                                EXCEPT !.entry = <<item>>]
                  /\ UNCHANGED <<fs, decisions, learning, undoHistory, waited>>
             ELSE /\ MoveAllowed(fs, path, folder, out)
                  /\ fs' = MoveFile(fs, path, folder, out)
                  /\ undoHistory' = RecordMove(undoHistory, fs, path, folder, out)
                  /\ ev' = [MoveEv("retry", path, folder, out) EXCEPT !.entry = <<item>>]
                  /\ waited' = [waited EXCEPT ![path] =
                                    Append(@, WaitTime(QGet(queue, path).attempts))]
                  /\ IF MoveSucceeded(out)
                     THEN /\ queue' = QRemove(queue, path)
                          /\ decisions' = ReplayDecision(decisions, filename, folder,
                                                         item.user_choice)
                          /\ learning' = ReplayLearning(learning, filename, folder,
                                                        item.user_choice)
                     ELSE /\ queue' = QueueAfterFailure(queue, path, out, now)
                          /\ UNCHANGED <<decisions, learning>>
          /\ wouldWrite' = IF QHas(queue', path) THEN wouldWrite
                           ELSE [wouldWrite EXCEPT ![path] = None]
    /\ IF ctx.j < Len(ctx.ready)
       THEN pc' = "retrying" /\ ctx' = [ctx EXCEPT !.j = @ + 1]
       ELSE pc' = "sleep" /\ ctx' = IdleCtx
    /\ UNCHANGED <<ignored, patterns, paused, loopFrame>>


-----------------------------------------------------------------------------
(* main.py: handle_batch, and ui/batch_prompt.py: display_batch_summary.   *)
(* ctx.suggestions holds (file_path, folder); the confidence of a          *)
(* suggestion is only printed.  ctx.ud is the user_decisions dict.         *)

DictPut(d, k, v) == [x \in DOMAIN d \cup {k} |-> IF x = k THEN v ELSE d[x]]

RECURSIVE DecideAll(_, _, _, _)
\* "for filename, folder, confidence in suggestions: user_decisions[filename] = ..."
DecideAll(sugg, i, d, accept) ==
    IF i > Len(sugg) THEN d
    ELSE DecideAll(sugg, i + 1,
                   DictPut(d, sugg[i][1],
                           IF accept THEN <<"accept", sugg[i][2]>> ELSE <<"ignore", None>>),
                   accept)

HandleBatch(batch) ==
    /\ NoMove
    /\ IF batch = <<>>
       THEN Return
       ELSE pc' = "stage1" /\ ctx' = [IdleCtx EXCEPT !.batch = batch, !.i = 1]
    /\ ev' = [NoEv EXCEPT !.op = "batch", !.batch = batch]
    /\ UNCHANGED <<ignored, patterns, paused>>

\* end of the first pass: display_batch_summary is called if there are suggestions
AfterFirstPass(sugg) ==
    IF ctx.i < Len(ctx.batch)
    THEN /\ pc' = "stage1"
         /\ ctx' = [ctx EXCEPT !.i = @ + 1, !.suggestions = sugg]
         /\ UNCHANGED paused
    ELSE IF sugg = <<>>
    THEN Return /\ UNCHANGED paused
    ELSE /\ pc' = "quick"
         /\ ctx' = [ctx EXCEPT !.suggestions = sugg]
         /\ paused' = FlagDuringInput

\* the part of the first pass after "result = match(file_path, scopes)"
Stage1OnResult(p, result, out) ==
    /\ IF result.folder = None
       THEN NoMove /\ AfterFirstPass(ctx.suggestions)
       ELSE IF DecideAction(result.confidence, AutoMoveTh, SuggestTh) = "auto_move"
       THEN /\ MoveAndLearn(p, result.folder, result.folder, "accept",
                            BatchAcceptChoice(result.folder), out)
            /\ AfterFirstPass(ctx.suggestions)
       ELSE IF DecideAction(result.confidence, AutoMoveTh, SuggestTh) = "ask"
       THEN /\ NoMove
            /\ AfterFirstPass(Append(ctx.suggestions, <<p, result.folder>>))
       ELSE NoMove /\ AfterFirstPass(ctx.suggestions)
    /\ ev' = [NoEv EXCEPT !.op = "stage1", !.path = p,
                          !.match = <<result>>,
                          !.mem = GetDecision(decisions, Basename(p)),
                          !.target = result.folder,
                          !.outcome = IF result.folder # None
                                         /\ DecideAction(result.confidence, AutoMoveTh,
                                                         SuggestTh) = "auto_move"
                                      THEN out ELSE "none"]
    /\ UNCHANGED ignored

Stage1Step(m, out) ==
    /\ pc = "stage1"
    /\ IF IsFileIgnored(ignored, Basename(ctx.batch[ctx.i]))
       THEN /\ NoMove /\ AfterFirstPass(ctx.suggestions)
            /\ ev' = [NoEv EXCEPT !.op = "stage1", !.path = ctx.batch[ctx.i]]
            /\ UNCHANGED ignored
       ELSE IF MatchesIgnorePattern(patterns, Basename(ctx.batch[ctx.i]))
       THEN /\ ignored' = SaveIgnore(ignored, Basename(ctx.batch[ctx.i]))
            /\ NoMove /\ AfterFirstPass(ctx.suggestions)
            /\ ev' = [NoEv EXCEPT !.op = "stage1", !.path = ctx.batch[ctx.i]]
       ELSE \E result \in {Match(decisions, learning, Basename(ctx.batch[ctx.i]), m)} :
                Stage1OnResult(ctx.batch[ctx.i], result, out)
    /\ UNCHANGED <<patterns, loopFrame>>

promptFrame == <<fs, decisions, learning, ignored, patterns, undoHistory, queue, histVars,
                 now, arrivals, bmFiles, bmTLast, lastSeen, sentToBatch,
                 processedFiles, lastScan, handedOver, lastEvent>>

QuickChoices == {"a", "i", "c", "raise"}    \* "c": any other answer

\* stage 2 starts with "if not user_decisions: return"
StartStage2(d) ==
    IF DOMAIN d = {}
    THEN Return
    ELSE pc' = "stage2" /\ ctx' = [ctx EXCEPT !.ud = d, !.j = 1]

QuickReturn(choice) ==
    /\ pc = "quick"
    /\ choice \in QuickChoices
    /\ IF choice \in {"a", "i"}
       THEN /\ paused' = FlagAfterInput(FALSE)
            /\ StartStage2(DecideAll(ctx.suggestions, 1, <<>>, choice = "a"))
       ELSE IF choice = "raise"
       THEN paused' = FlagAfterInput(TRUE) /\ Stop
       ELSE /\ paused' = FlagDuringInput
            /\ pc' = "perfile"
            /\ ctx' = [ctx EXCEPT !.j = 1]
    /\ ev' = [NoEv EXCEPT !.op = "quick"]
    /\ UNCHANGED promptFrame

\* the next per-file prompt, or the final confirmation
NextPerFile(d) ==
    /\ paused' = FlagDuringInput
    /\ IF ctx.j < Len(ctx.suggestions)
       THEN pc' = "perfile" /\ ctx' = [ctx EXCEPT !.ud = d, !.j = @ + 1]
       ELSE pc' = "final" /\ ctx' = [ctx EXCEPT !.ud = d]

PerFileReturn(choice) ==
    /\ pc = "perfile"
    /\ choice \in SingleChoices
    /\ LET key == ctx.suggestions[ctx.j][1]
           folder == ctx.suggestions[ctx.j][2]
       IN IF choice = "s"
          THEN NextPerFile(DictPut(ctx.ud, key, <<"accept", folder>>))
          ELSE IF choice = "o"
          THEN paused' = FlagDuringInput /\ pc' = "perfile_custom" /\ ctx' = ctx
          ELSE IF choice = "i"
          THEN NextPerFile(DictPut(ctx.ud, key, <<"ignore", None>>))
          ELSE IF choice = "raise"
          THEN paused' = FlagAfterInput(TRUE) /\ Stop
          ELSE paused' = FlagDuringInput /\ pc' = pc /\ ctx' = ctx
    /\ ev' = [NoEv EXCEPT !.op = "perfile"]
    /\ UNCHANGED promptFrame

PerFileCustomReturn(custom, raised) ==
    /\ pc = "perfile_custom"
    /\ custom \in CustomAnswers
    /\ LET key == ctx.suggestions[ctx.j][1]
       IN IF raised
          THEN paused' = FlagAfterInput(TRUE) /\ Stop
          ELSE IF custom # None
          THEN NextPerFile(DictPut(ctx.ud, key, <<"choose", custom>>))
          ELSE NextPerFile(DictPut(ctx.ud, key, <<"ignore", None>>))
    /\ ev' = [NoEv EXCEPT !.op = "perfile_custom"]
    /\ UNCHANGED promptFrame

FinalAnswers == {"y", "n", "raise"}

FinalReturn(ans) ==
    /\ pc = "final"
    /\ ans \in FinalAnswers
    /\ paused' = FlagAfterInput(ans = "raise")
    /\ IF ans = "raise" THEN Stop
       ELSE IF ans = "y" THEN StartStage2(ctx.ud)
       ELSE StartStage2(<<>>)
    /\ ev' = [NoEv EXCEPT !.op = "final"]
    /\ UNCHANGED promptFrame

AfterStage2File ==
    IF ctx.j < Len(ctx.suggestions)
    THEN pc' = "stage2" /\ ctx' = [ctx EXCEPT !.j = @ + 1]
    ELSE Return

Stage2Step(out) ==
    /\ pc = "stage2"
    /\ LET file_path == ctx.suggestions[ctx.j][1]
           suggested_folder == ctx.suggestions[ctx.j][2]
           filename == Basename(file_path)
           key == AsPath(filename)          \* "if filename not in user_decisions"
       IN IF key \notin DOMAIN ctx.ud
          THEN /\ NoMove /\ AfterStage2File
               /\ ev' = [NoEv EXCEPT !.op = "stage2_skip", !.path = file_path]
               /\ UNCHANGED <<ignored, paused>>
          ELSE LET action_type == ctx.ud[key][1]
                   chosen_folder == ctx.ud[key][2]
               IN IF action_type = "accept"
                  THEN /\ MoveAndLearn(file_path, suggested_folder, suggested_folder,
                                       "accept", BatchAcceptChoice(suggested_folder), out)
                       /\ AfterStage2File
                       /\ ev' = MoveEv("stage2_accept", file_path, suggested_folder, out)
                       /\ UNCHANGED <<ignored, paused>>
                  ELSE IF action_type = "choose"
                  THEN /\ MoveAndLearn(file_path, chosen_folder, suggested_folder,
                                       "choose",
                                       BatchChooseChoice(chosen_folder, suggested_folder),
                                       out)
                       /\ AfterStage2File
                       /\ ev' = MoveEv("stage2_choose", file_path, chosen_folder, out)
                       /\ UNCHANGED <<ignored, paused>>
                  ELSE /\ NoMove
                       /\ ignored' = SaveIgnore(ignored, filename)
                       /\ paused' = FlagDuringInput
                       /\ pc' = "ignore_pattern"
                       /\ ctx' = [ctx EXCEPT !.ret = "stage2", !.path = file_path]
                       /\ ev' = [NoEv EXCEPT !.op = "stage2_ignore", !.path = file_path]
    /\ UNCHANGED <<patterns, loopFrame>>

-----------------------------------------------------------------------------
(* main.py: on_batch_ready                                                  *)

\* a router that takes a pair for a single file
RouteSingleOrPair(batch) == Len(batch) <= 2

RouteSingle(batch) == Len(batch) = 1

OnBatchReady(batch, m, out) ==
    IF RouteSingle(batch)
    THEN HandleSingleFile(batch[1], m, out)
    ELSE HandleBatch(batch)

-----------------------------------------------------------------------------
(* Spec: the handlers and the retry pass.  The watcher's debounce and the  *)
(* timing of the batch window are left out here (SpecLoop has them): a     *)
(* dropped file is handed to the batch window at once (handle_new_file),   *)
(* and the window may close whenever it holds a file.  An iteration of the *)
(* control loop is: a batch, if one is ready, then the retry pass; the     *)
(* next one may start as soon as the loop sleeps.                          *)

Idle == pc \in {"top", "sleep"}

\* main.py: handle_new_file
HandleNewFile(p) ==
    /\ bmFiles' = AddFile(bmFiles, p)
    /\ bmTLast' = now

\* a file is dropped at p, the cap-th file at the latest, and handed on
Arrive(p, cap) ==
    /\ Idle
    /\ arrivals < cap
    /\ p \notin fs
    /\ p \notin SeqToSet(bmFiles)
    /\ fs' = fs \cup {p}
    /\ arrivals' = arrivals + 1
    /\ HandleNewFile(p)
    /\ ev' = NoEv
    /\ UNCHANGED <<now, storeVars, queue, watchVars, paused, pc, ctx, histVars>>

FlowArrive(p) == Arrive(p, MaxArrivals)

\* the window closes: pop_batch and on_batch_callback(batch)
Dispatch(inputs) ==
    /\ Idle
    /\ bmFiles # <<>>
    /\ bmFiles' = PopBatch(bmFiles).files
    /\ bmTLast' = PopBatch(bmFiles).t_last
    /\ \E m \in inputs, out \in Outcomes :
           OnBatchReady(PopBatch(bmFiles).batch, m, out)
    /\ UNCHANGED <<now, arrivals, watchVars>>

FlowDispatch == Dispatch(MatchInputs)

FlowNoBatch ==
    /\ Idle
    /\ pc' = "retry"
    /\ ctx' = IdleCtx
    /\ ev' = NoEv
    /\ UNCHANGED <<fs, storeVars, queue, paused, histVars, loopFrame>>

Handlers ==
    \/ \E m \in MatchInputs, out \in Outcomes : Stage1Step(m, out)
    \/ \E c \in SingleChoices, out \in Outcomes : SingleAskReturn(c, out)
    \/ \E c \in CustomAnswers, r \in BOOLEAN, out \in Outcomes :
           SingleCustomReturn(c, r, out)
    \/ \E a \in PromptAnswers : IgnorePatternReturn(a)
    \/ \E c \in QuickChoices : QuickReturn(c)
    \/ \E c \in SingleChoices : PerFileReturn(c)
    \/ \E c \in CustomAnswers, r \in BOOLEAN : PerFileCustomReturn(c, r)
    \/ \E a \in FinalAnswers : FinalReturn(a)
    \/ \E out \in Outcomes : Stage2Step(out)

Retries ==
    \/ RetryStart
    \/ \E out \in Outcomes : RetryStep(out)

\* in Spec only the retry queue reads the clock, and the clock is looked at
\* every TickFlow seconds (SpecRetry has the clock second by second)
FlowTick == Idle /\ queue # <<>> /\ Tick(MaxTimeFlow, TickFlow)

FlowVanish == Idle /\ \E p \in Paths : Vanish(p)

Next ==
    \/ FlowDispatch
    \/ FlowNoBatch
    \/ Handlers
    \/ Retries
    \/ \E p \in Paths : FlowArrive(p)
    \/ FlowVanish
    \/ FlowTick

Spec == Init /\ [][Next]_vars

-----------------------------------------------------------------------------
(* SpecStored: Spec started on a database that earlier runs have left      *)
(* ignore marks and ignore patterns in (init_db creates the tables only if *)
(* they do not exist).                                                      *)

Extensions == {n[2] : n \in Names}

InitStored ==
    /\ now = 1
    /\ fs = {}
    /\ arrivals = 0
    /\ decisions = [n \in Names |-> None]
    /\ learning = <<>>
    /\ ignored \in SUBSET Names
    /\ patterns \in SUBSET Extensions
    /\ undoHistory = <<>>
    /\ queue = <<>>
    /\ bmFiles = <<>>
    /\ bmTLast = NoTime
    /\ lastSeen = <<>>
    /\ sentToBatch = {}
    /\ processedFiles = {}
    /\ lastScan = NoTime
    /\ paused = FALSE
    /\ pc = "top"
    /\ ctx = IdleCtx
    /\ ev = NoEv
    /\ wouldWrite = NoWould
    /\ waited = [p \in AllPaths |-> <<>>]
    /\ handedOver = [p \in AllPaths |-> 0]
    /\ lastEvent = [p \in AllPaths |-> NoTime]

SpecStored == InitStored /\ [][Next]_vars

-----------------------------------------------------------------------------
(* SpecRetry: the retry queue over its whole backoff, second by second.     *)
(* One file is dropped, the classifier is sure of its folder (the move is   *)
(* automatic), and the file system answers each move as it likes.           *)

RetryPaths == {AsPath(<<"econ", "pdf">>)}

SureInput == [llm |-> <<"econ", 90>>, fuzzy |-> NoFuzzy, cfuzzy |-> NoFuzzy,
              content |-> <<>>]

RetryArrive == now <= ArriveBy /\ \E p \in RetryPaths : FlowArrive(p)

RetryDispatch == Dispatch({SureInput})

RetryTick == Idle /\ Tick(MaxTimeRetry, 1)

RetryVanish == Idle /\ \E p \in RetryPaths : Vanish(p)

NextRetry ==
    \/ RetryArrive
    \/ RetryDispatch
    \/ FlowNoBatch
    \/ Retries
    \/ RetryVanish
    \/ RetryTick

SpecRetry == Init /\ [][NextRetry]_vars

\* SpecRetryLive: SpecRetry with a control loop that keeps running and a
\* clock that advances and is looked at every TickFlow seconds (every wait
\* of the backoff is a multiple of it): an iteration starts whenever the loop
\* is idle, the retry pass takes its next step, and the loop, which sleeps
\* in every iteration, does not iterate for ever at one time of the clock
RetryLiveTick == Idle /\ Tick(MaxTimeRetry, TickFlow)

NextRetryLive ==
    \/ RetryArrive
    \/ RetryDispatch
    \/ FlowNoBatch
    \/ Retries
    \/ RetryVanish
    \/ RetryLiveTick

SpecRetryLive ==
    /\ Init /\ [][NextRetryLive]_vars
    /\ WF_vars(FlowNoBatch) /\ WF_vars(Retries) /\ SF_vars(RetryLiveTick)

-----------------------------------------------------------------------------
(* SpecLoop: start_downloads_watcher.  Files are created in the watched     *)
(* directory; the observer thread delivers created and modified events (or  *)
(* misses them) while the control loop sleeps or waits for the user; the    *)
(* loop runs one iteration, sleeps a second, and runs the next; the clock   *)
(* also advances while it waits for the user.                               *)

LoopPaths == {p \in AllPaths : Dirname(p) = DL}

Listings == {l \in LoopPaths \X LoopPaths : l[1] # l[2]}

\* the classifier is sure, or half sure, of the folder
LoopInputs == {SureInput,
               [llm |-> <<"misc", 60>>, fuzzy |-> NoFuzzy, cfuzzy |-> NoFuzzy,
                content |-> <<>>]}

PromptPcs == {"single_ask", "single_custom", "ignore_pattern", "quick",
              "perfile", "perfile_custom", "final"}

Waiting == pc = "sleep" \/ pc \in PromptPcs

\* a file appears in the downloads directory; notified: watchdog delivers
\* on_created for it
Created(p, notified) ==
    /\ Waiting
    /\ arrivals < MaxArrivals
    /\ p \notin fs
    /\ fs' = fs \cup {p}
    /\ arrivals' = arrivals + 1
    /\ lastSeen' = IF notified THEN OnCreated(lastSeen, p, now) ELSE lastSeen
    /\ lastEvent' = IF notified THEN [lastEvent EXCEPT ![p] = now] ELSE lastEvent
    /\ handedOver' = [handedOver EXCEPT ![p] = 0]
    /\ ev' = NoEv
    /\ UNCHANGED <<now, storeVars, queue, bmVars, sentToBatch, processedFiles,
                   lastScan, paused, pc, ctx, histVars>>

\* watchdog delivers one more on_created for a file that is there already
CreatedAgain(p) ==
    /\ pc = "sleep"
    /\ p \in fs
    /\ handedOver[p] < MaxHandOvers
    /\ lastSeen' = OnCreated(lastSeen, p, now)
    /\ lastEvent' = [lastEvent EXCEPT ![p] = now]
    /\ ev' = NoEv
    /\ UNCHANGED <<envVars, storeVars, queue, bmVars, sentToBatch, processedFiles,
                   lastScan, handedOver, paused, pc, ctx, histVars>>

\* the file is written to again while the loop sleeps: on_modified
Modified(p) ==
    /\ pc = "sleep"
    /\ p \in fs
    /\ Tracked(lastSeen, p)
    /\ lastSeen' = OnModified(lastSeen, p, now)
    /\ lastEvent' = [lastEvent EXCEPT ![p] = now]
    /\ ev' = NoEv
    /\ UNCHANGED <<envVars, storeVars, queue, bmVars, sentToBatch, processedFiles,
                   lastScan, handedOver, paused, pc, ctx, histVars>>

LoopVanish == pc = "sleep" /\ \E p \in LoopPaths : Vanish(p)

\* the user takes a second more to answer
PromptTick == pc \in PromptPcs /\ Tick(MaxTimeLoop, 1)

\* time.sleep(1) at the end of an iteration
Sleep ==
    /\ pc = "sleep"
    /\ now + 1 <= MaxTimeLoop
    /\ now' = now + 1
    /\ pc' = "top"
    /\ ev' = NoEv
    /\ UNCHANGED <<fs, arrivals, storeVars, queue, bmVars, watchVars, paused, ctx,
                   histVars>>

\* on_modified(racer) runs in the observer thread while process_ready_files
\* is between its copy of _last_seen and "del self._last_seen[file_path]" for
\* an entry it has found stable
Races(racer) ==
    /\ racer \in fs
    /\ handedOver[racer] < MaxHandOvers
    /\ \E i \in 1..Len(lastSeen) : lastSeen[i].path = racer /\ Stable(lastSeen[i], now)

\* one pass of "while True" up to the retry callback.  racer: None, or the
\* path of an on_modified that races with process_ready_files; its test
\* "file_path in self._last_seen" has passed, and its store lands before the
\* del (the stamp is deleted with the entry) or, late, after it (the path is
\* tracked anew)
LoopIteration(listing, m, out, racer, late) ==
    /\ pc = "top"
    /\ IF racer = None THEN ~late ELSE Races(racer)
    /\ handedOver' =
           [p \in AllPaths |->
               IF p \in SeqToSet(ProcessReadyFiles(lastSeen, fs, now).ready)
               THEN handedOver[p] + 1 ELSE handedOver[p]]
    /\ LET pr0 == ProcessReadyFiles(lastSeen, fs, now)
           pr == [ready |-> pr0.ready,
                  seen |-> IF late THEN Append(pr0.seen, [path |-> racer, t |-> now])
                           ELSE pr0.seen]
           files1 == bmFiles \o pr.ready
           tLast1 == IF pr.ready = <<>> THEN bmTLast ELSE now
           sent1 == sentToBatch \cup SeqToSet(pr.ready)
           doScan == now - lastScan >= ScanEvery
           popped == PopBatch(files1)
       IN IF paused
          THEN /\ lastSeen' = pr.seen
               /\ sentToBatch' = sent1
               /\ bmFiles' = files1
               /\ bmTLast' = tLast1
               /\ ev' = [NoEv EXCEPT !.op = "loop_paused", !.batch = pr.ready,
                                     !.path = racer]
               /\ UNCHANGED <<fs, storeVars, queue, processedFiles, lastScan, paused,
                              pc, ctx, histVars>>
          ELSE /\ lastScan' = IF doScan THEN now ELSE lastScan
               /\ lastSeen' = IF doScan
                              THEN ScanDownloads(pr.seen, fs, processedFiles, sent1,
                                                 listing, now)
                              ELSE pr.seen
               /\ IF IsReady(files1, tLast1, now)
                  THEN /\ bmFiles' = popped.files
                       /\ bmTLast' = popped.t_last
                       /\ processedFiles' = processedFiles \cup SeqToSet(popped.batch)
                       /\ sentToBatch' = sent1 \ SeqToSet(popped.batch)
                       /\ OnBatchReady(popped.batch, m, out)
                  ELSE /\ bmFiles' = files1
                       /\ bmTLast' = tLast1
                       /\ sentToBatch' = sent1
                       /\ NoMove
                       /\ Return
                       /\ ev' = [NoEv EXCEPT !.op = "loop", !.batch = pr.ready,
                                             !.path = racer]
                       /\ UNCHANGED <<ignored, patterns, paused, processedFiles>>
    /\ lastEvent' = [p \in AllPaths |->
                        IF ~Tracked(lastSeen', p) THEN NoTime
                        ELSE IF p = racer THEN now ELSE lastEvent[p]]
    /\ UNCHANGED <<now, arrivals>>

\* no event arrives while process_ready_files runs
ControlLoop == \E l \in Listings, m \in LoopInputs, out \in Outcomes :
                   LoopIteration(l, m, out, None, FALSE)

LoopHandlers ==
    \/ \E m \in LoopInputs, out \in Outcomes : Stage1Step(m, out)
    \/ \E c \in SingleChoices, out \in Outcomes : SingleAskReturn(c, out)
    \/ \E c \in CustomAnswers, r \in BOOLEAN, out \in Outcomes :
           SingleCustomReturn(c, r, out)
    \/ \E a \in PromptAnswers : IgnorePatternReturn(a)
    \/ \E c \in QuickChoices : QuickReturn(c)
    \/ \E c \in SingleChoices : PerFileReturn(c)
    \/ \E c \in CustomAnswers, r \in BOOLEAN : PerFileCustomReturn(c, r)
    \/ \E a \in FinalAnswers : FinalReturn(a)
    \/ \E out \in Outcomes : Stage2Step(out)

NextLoop ==
    \/ \E p \in LoopPaths, n \in BOOLEAN : Created(p, n)
    \/ \E p \in LoopPaths : Modified(p)
    \/ LoopVanish
    \/ PromptTick
    \/ Sleep
    \/ ControlLoop
    \/ LoopHandlers
    \/ Retries

SpecLoop == Init /\ [][NextLoop]_vars

-----------------------------------------------------------------------------
(* SpecWatch: the watcher with an observer thread that may deliver an       *)
(* on_created more than once and whose on_modified may run while            *)
(* process_ready_files does.  The classifier is sure of the folder, so      *)
(* that no handler waits for the user; a move succeeds, or the file is a    *)
(* duplicate and stays in the downloads directory.                          *)

WatchOutcomes == {"success", "duplicate"}

NextWatch ==
    \/ \E p \in LoopPaths, n \in BOOLEAN : Created(p, n)
    \/ \E p \in LoopPaths : Modified(p)
    \/ \E p \in LoopPaths : CreatedAgain(p)
    \/ LoopVanish
    \/ Sleep
    \/ \E l \in Listings, out \in WatchOutcomes, racer \in LoopPaths \cup {None},
          late \in BOOLEAN : LoopIteration(l, SureInput, out, racer, late)
    \/ \E out \in WatchOutcomes : Stage1Step(SureInput, out)
    \/ RetryStart

SpecWatch == Init /\ [][NextWatch]_vars

-----------------------------------------------------------------------------
(* SpecDrain: SpecLoop with a control loop that keeps running.  The loop,  *)
(* the handlers and the retry pass take their next step whenever they can  *)
(* (a prompt is answered in the end, time.sleep returns); the environment  *)
(* owes nothing.                                                            *)

SpecDrain ==
    /\ Init /\ [][NextLoop]_vars
    /\ WF_vars(Sleep) /\ WF_vars(ControlLoop)
    /\ WF_vars(LoopHandlers) /\ WF_vars(Retries)

-----------------------------------------------------------------------------
(* Properties of the handlers and the retry pass, checked under Spec.       *)

LastRow(ledger) == ledger[Len(ledger)]

MoveFailures == {"locked", "duplicate", "error"}

\* C1: in handle_single_file, handle_batch and process_locked_retries a row
\* of decisions, or an accept/choose row of learning, for a file is written
\* only by a step whose move of that file returned success; a step whose
\* move returned locked, duplicate or another error writes neither table.
C1_WritesOnlyAfterSuccess ==
    [][/\ \A n \in Names :
              decisions'[n] # decisions[n]
                  => ev'.outcome = "success" /\ Basename(ev'.path) = n
       /\ learning' # learning
              => /\ Len(learning') = Len(learning) + 1
                 /\ SubSeq(learning', 1, Len(learning)) = learning
                 /\ LastRow(learning').action \in {"accept", "choose"}
                 /\ ev'.outcome = "success"
                 /\ Basename(ev'.path) = LastRow(learning').filename
                 /\ decisions'[Basename(ev'.path)] = ev'.target
       /\ ev'.outcome \in MoveFailures
              => decisions' = decisions /\ learning' = learning]_vars

\* the first pass of a batch moved a file of the downloads directory on
\* its own and wrote both rows
C1_Witness ==
    /\ ev.op = "stage1"
    /\ Dirname(ev.path) = DL
    /\ ev.outcome = "success"
    /\ learning # <<>>
    /\ LastRow(learning) = LearnRow(Basename(ev.path), ev.target, "accept")
    /\ decisions[Basename(ev.path)] = ev.target

\* C2 (as stated): when process_locked_retries finally moves a queued file,
\* the entry is removed and the decisions row and the learning row written
\* are those the original resolution would have written had its first move
\* succeeded (wouldWrite: target folder, folder recorded, action), whether
\* the entry was queued by the single-file flow or by the batch flow.
C2_ReplayEqualsOriginal ==
    [][(ev'.op = "retry" /\ ev'.outcome = "success")
           => LET path == ev'.path
                  w == wouldWrite[path]
              IN /\ ~QHas(queue', path)
                 /\ decisions' = SaveDecision(decisions, Basename(path), w[1])
                 /\ learning' = SaveLearning(learning, Basename(path), w[2], w[3])]_vars

\* C5: in process_locked_retries, a ready entry whose source file is gone,
\* or whose retried move fails with anything but locked (duplicate
\* included), leaves the queue, and the step writes no decisions row and no
\* learning row.
C5_DroppedWithoutWrites ==
    [][(ev'.op = "retry" /\ ev'.outcome \in {"missing", "duplicate", "error"})
           => /\ QHas(queue, ev'.path)
              /\ ~QHas(queue', ev'.path)
              /\ Len(queue') = Len(queue) - 1
              /\ decisions' = decisions
              /\ learning' = learning]_vars

\* a retried move was answered duplicate and its entry is gone
C5_Witness ==
    /\ ev.op = "retry"
    /\ ev.outcome = "duplicate"
    /\ ~QHas(queue, ev.path)

\* C10: when match is called for a filename that has a decisions row, it
\* returns that folder with confidence exactly 1.0, method memory, token,
\* fuzzy and content scores zero, having consulted neither the classifier
\* nor the fallback scan and applied no learning adjustment; the classifier
\* and the scan answer only for a filename without a row.
C10_MemoryFirst ==
    \A i \in 1..Len(ev.match) :
        LET r == ev.match[i]
        IN /\ ev.mem # None
               => /\ r.folder = ev.mem
                  /\ r.confidence = One
                  /\ r.method = "memory"
                  /\ r.token_score = 0 /\ r.fuzzy_score = 0 /\ r.content_score = 0
                  /\ r.stages = <<"memory">>
           /\ r.method # "memory" => ev.mem = None

\* match answered from memory for a file whose ledger holds a rejection of
\* that very folder, which the learning adjustment would have counted
C10_Witness ==
    /\ ev.match # <<>>
    /\ ev.mem # None
    /\ ev.match[1].method = "memory"
    /\ \E i \in 1..Len(learning) :
           /\ learning[i].filename = Basename(ev.path)
           /\ learning[i].folder = ev.mem
           /\ learning[i].action = "choose"

-----------------------------------------------------------------------------
(* Properties of the retry queue, checked under SpecRetry.                  *)

\* min(5 * 2^attempts, 60), written out
Backoff(attempts) == IF 5 * (2 ^ attempts) <= 60 THEN 5 * (2 ^ attempts) ELSE 60

Returned(ready, path) == \E j \in 1..Len(ready) : ready[j].file_path = path

\* C3: LockedFileQueue.add inserts the path with attempts = 0 and
\* last_retry = now; get_ready_files returns an entry if and only if
\* now - last_retry >= min(5 * 2^attempts, 60); and no entry's move is
\* retried before that wait has elapsed.
C3_BackoffGate ==
    [][/\ (ev'.op # "retry" /\ ev'.outcome = "locked")
              => /\ QHas(queue', ev'.path)
                 /\ QGet(queue', ev'.path).attempts = 0
                 /\ QGet(queue', ev'.path).last_retry = now
                 /\ QGet(queue', ev'.path).folder = ev'.target
       /\ ev'.op = "retry_start"
              => \A i \in 1..Len(queue) :
                     Returned(ctx'.ready, queue[i].file_path)
                         <=> now - queue[i].last_retry >= Backoff(queue[i].attempts)
       /\ (ev'.op = "retry" /\ ev'.outcome # "missing")
              => now - QGet(queue, ev'.path).last_retry
                     >= Backoff(QGet(queue, ev'.path).attempts)]_vars

\* get_ready_files has just returned an entry in its last, 60 second, wait
\* at the very second that wait elapsed
C3_Witness ==
    /\ pc = "retrying"
    /\ ev.op = "retry_start"
    /\ \E i \in 1..Len(queue) :
           /\ queue[i].attempts = 4
           /\ now - queue[i].last_retry = 60
           /\ Returned(ctx.ready, queue[i].file_path)

FiveWaits == <<5, 10, 20, 40, 60>>
ClaimedWaits == <<5, 10, 20, 40, 60, 60>>

\* the retried move of ev'.path was answered locked and the queue gave up
GaveUp == ev'.op = "retry" /\ ev'.outcome = "locked" /\ ~QHas(queue', ev'.path)

\* C4 (as stated): for a file that stays locked, with max_retries = 5, the
\* waits between consecutive move attempts are 5, 10, 20, 40, 60, 60 seconds
\* and the entry is dropped exactly at the 6th failed attempt.
C4_SixWaits ==
    [][GaveUp => /\ waited'[ev'.path] = ClaimedWaits
                 /\ Len(waited'[ev'.path]) + 1 = 6]_vars

\* C4 (amended): for a file that stays locked, with max_retries = 5, the
\* waits before its retried moves are 5, 10, 20, 40, 60 seconds (each
\* retry comes no sooner than its wait after the attempt before it, each
\* renewed lock failure increments attempts and resets last_retry), and the
\* entry is dropped exactly at the 6th failed move, the first included:
\* there is no sixth wait.
C4_FiveWaits ==
    [][(ev'.op = "retry" /\ ev'.outcome = "locked")
           => LET path == ev'.path
                  e == QGet(queue, path)
                  n == Len(waited'[path])
              IN /\ n = e.attempts + 1
                 /\ n <= Len(FiveWaits)
                 /\ waited'[path] = SubSeq(FiveWaits, 1, n)
                 /\ now - e.last_retry >= FiveWaits[n]
                 /\ QHas(queue', path) <=> n + 1 < 6
                 /\ QHas(queue', path)
                        => /\ QGet(queue', path).attempts = e.attempts + 1
                           /\ QGet(queue', path).last_retry = now]_vars

\* the file was locked six times in a row, every retry came the second its
\* wait was over, and the queue has just given it up
C4_Witness ==
    /\ ev.op = "retry"
    /\ ev.outcome = "locked"
    /\ ~QHas(queue, ev.path)
    /\ waited[ev.path] = FiveWaits
    /\ now = 136

-----------------------------------------------------------------------------
(* Properties of the batch window and the control loop, checked under      *)
(* SpecLoop.                                                                *)

IsPrefix(a, b) == Len(a) <= Len(b) /\ SubSeq(b, 1, Len(a)) = a

\* the step is an iteration of the control loop that drained the window
Drained == ev'.op \in {"single", "batch"}

\* the step belongs to the control loop's polling: an iteration past the
\* pause check, or the retry pass
Polling == ev'.op \in {"loop", "single", "batch", "retry_start", "retry"}

\* C6: BatchManager.is_ready is true if and only if at least one file is
\* pending and now - lastArrival >= windowSeconds, lastArrival being the
\* time of the most recent add_file (every arrival appends and resets it);
\* the loop drains only a ready window; files added at t = 0, 1, 2 with
\* window 8 are not ready at t = 9 and are ready at t = 10.
C6_WindowClosesAfterQuiet ==
    [][/\ IsReady(bmFiles', bmTLast', now')
              <=> (bmFiles' # <<>> /\ now' - bmTLast' >= 8)
       /\ Len(bmFiles') > Len(bmFiles)
              => IsPrefix(bmFiles, bmFiles') /\ bmTLast' = now
       /\ Drained => bmFiles # <<>> /\ now - bmTLast >= 8
       /\ (ev'.op = "loop" /\ bmFiles' = bmFiles)
              => ~(bmFiles # <<>> /\ now - bmTLast >= 8)
       /\ LET three == <<AsPath(<<"a", "pdf">>), AsPath(<<"b", "pdf">>),
                         AsPath(<<"c", "pdf">>)>>
          IN ~IsReady(three, 2, 9) /\ IsReady(three, 2, 10)]_vars

\* two files are pending, the last came 8 seconds ago, and the window is
\* ready
C6_Witness ==
    /\ Len(bmFiles) = 2
    /\ now - bmTLast = BatchWindowSeconds
    /\ IsReady(bmFiles, bmTLast, now)

\* C7: a drain hands on every path added since the previous drain, in
\* arrival order, and leaves the window idle (nothing pending, is_ready
\* false whatever the time); between drains paths are only appended; so
\* every added path is returned by exactly one drain.
C7_OneDrainPerCycle ==
    [][IF Drained
       THEN /\ ev'.batch = bmFiles
            /\ bmFiles # <<>>
            /\ bmFiles' = <<>>
            /\ \A t \in 0..MaxTimeLoop : ~IsReady(bmFiles', bmTLast', t)
            /\ SeqToSet(ev'.batch) \subseteq processedFiles'
       ELSE IsPrefix(bmFiles, bmFiles')]_vars

\* a second drain: it hands on the one file added since the first, which
\* handed on the other
C7_Witness ==
    /\ ev.op = "single"
    /\ bmFiles = <<>>
    /\ \E p \in processedFiles : p \notin SeqToSet(ev.batch)

BatchPcs == {"stage1", "quick", "perfile", "perfile_custom", "final", "stage2"}

\* C8: a drained batch of exactly one file goes to the single-file flow
\* (auto-move or the direct prompt, never the batch summary) and a drained
\* batch of two or more to the batch flow; never both, never neither.
C8_Routing ==
    [][/\ (bmFiles # <<>> /\ bmFiles' = <<>>)
              => /\ Len(bmFiles) = 1
                     => ev'.op = "single" /\ pc' \in {"retry", "single_ask"}
                 /\ Len(bmFiles) >= 2
                     => ev'.op = "batch" /\ pc' = "stage1" /\ ctx'.batch = bmFiles
       /\ pc' \in BatchPcs => Len(ctx'.batch) >= 2
       /\ pc' \in {"single_ask", "single_custom"} => ctx'.batch = <<>>]_vars

\* a single file waits at the direct prompt
C8_Witness ==
    /\ ev.op = "single"
    /\ Len(ev.batch) = 1
    /\ pc = "single_ask"

\* C9: the paused flag is set exactly while a get_user_input call is in
\* progress (it is cleared when the call returns and when it raises), and
\* while it is set the control loop drains no batch and runs no retry pass.
C9_PausedOnlyDuringInput ==
    [][/\ paused' <=> pc' \in PromptPcs
       /\ paused => /\ ~Polling
                    /\ IsPrefix(bmFiles, bmFiles')
                    /\ pc' \in PromptPcs \cup BatchPcs \cup {"retry", "stopped"}]_vars

\* the input call of a prompt has raised: the loop is over, the flag clear
C9_Witness ==
    /\ pc = "stopped"
    /\ ~paused
    /\ ev.op = "quick"

-----------------------------------------------------------------------------
(* SpecScore: the matcher and the learning functions on their own.  The   *)
(* ledger is filled by earlier resolutions (save_learning), a decision is  *)
(* remembered by an earlier move (save_decision), and then match and       *)
(* get_confidence_with_learning are called on inputs drawn from the sets   *)
(* below.  ev holds the call and what it returned.                         *)

EconPdf == <<"econ", "pdf">>
NotesZip == <<"notes", "zip">>

\* The rows earlier resolutions may have written.  The learning functions
\* count rows, so the ledger is filled in this order of rows: every
\* multiset of them up to MaxLedger rows is reached once.
LedgerRows ==
    <<LearnRow(EconPdf, F1, "accept"), LearnRow(EconPdf, F1, "choose"),
      LearnRow(NotesZip, F1, "accept"), LearnRow(EconPdf, F1, "ignore")>>

RowIndex(row) == CHOOSE k \in 1..Len(LedgerRows) : LedgerRows[k] = row

ScoreRecord(k) ==
    /\ Len(learning) < MaxLedger
    /\ IF learning = <<>> THEN TRUE ELSE RowIndex(learning[Len(learning)]) <= k
    /\ learning' = SaveLearning(learning, LedgerRows[k].filename,
                                LedgerRows[k].folder, LedgerRows[k].action)
    /\ ev' = [NoEv EXCEPT !.op = "record"]
    /\ UNCHANGED <<envVars, decisions, ignored, patterns, undoHistory, queue, bmVars,
                   watchVars, paused, pc, ctx, histVars>>

ScoreRemember ==
    /\ GetDecision(decisions, EconPdf) = None
    /\ decisions' = SaveDecision(decisions, EconPdf, F2)
    /\ ev' = [NoEv EXCEPT !.op = "remember"]
    /\ UNCHANGED <<envVars, learning, ignored, patterns, undoHistory, queue, bmVars,
                   watchVars, paused, pc, ctx, histVars>>

\* the tables after a query of learning_logic or of match: each query opens
\* a connection, runs one SELECT and closes the connection
LedgerAfterQueryLogged(ledger, filename, folder) ==
    SaveLearning(ledger, filename, folder, "ignore")

LedgerAfterQuery(ledger, filename, folder) == ledger

DecisionsAfterQuery(decs, filename) == decs

scoreFrame == <<envVars, ignored, patterns, undoHistory, queue, bmVars, watchVars,
                paused, pc, ctx, histVars>>

\* base confidences handed to the learning functions: the unit interval,
\* and what a classifier percentage of 150 comes to
UnitBases == {0, Pct(45), Pct(60), Pct(97), One}
ScoreBases == UnitBases \cup {Pct(150)}

\* confidence = get_confidence_with_learning(base, filename, folder)
Evaluate(base, filename, folder) ==
    /\ ev' = [NoEv EXCEPT
                !.op = "learn", !.path = AsPath(filename), !.target = folder,
                !.match = <<[base |-> base,
                             pair |-> ApplyLearningAdjustment(learning, base,
                                                              filename, folder),
                             confidence |-> GetConfidenceWithLearning(learning, base,
                                                              filename, folder)]>>]
    /\ learning' = LedgerAfterQuery(learning, filename, folder)
    /\ decisions' = decisions
    /\ UNCHANGED scoreFrame

ScoreLlm ==
    LlmFailures \cup {<<"econ", 90>>, <<"misc", 60>>, <<"zed", 90>>, <<"econ", 0>>,
                      <<"econ", 0 - 20>>, <<"econ", 150>>}

\* what rapidfuzz and the content extractors answer for the fallback scan
ScanInputs ==
    {[fuzzy |-> NoFuzzy, content |-> <<>>],
     [fuzzy |-> [f \in {F1, F2} |-> IF f = F1 THEN 100 ELSE 0], content |-> <<>>],
     [fuzzy |-> NoFuzzy, content |-> <<"econ">>]}

\* the scan is consulted only when the classifier gives no positive result
ScoreInputs ==
    {[llm |-> l, fuzzy |-> sc.fuzzy, cfuzzy |-> NoFuzzy, content |-> sc.content] :
        l \in {r \in ScoreLlm : r \in LlmFailures \/ r[2] <= 0 \/ r[1] = "zed"},
        sc \in ScanInputs}
    \cup {[llm |-> l, fuzzy |-> NoFuzzy, cfuzzy |-> NoFuzzy, content |-> <<>>] :
        l \in {r \in ScoreLlm : r \notin LlmFailures /\ r[2] > 0 /\ r[1] # "zed"}}

\* result = match(file_path, scopes)
ScoreMatch(filename, inp) ==
    /\ ev' = [NoEv EXCEPT
                !.op = "match", !.path = AsPath(filename),
                !.mem = GetDecision(decisions, filename),
                !.match = <<Match(decisions, learning, filename, inp)>>,
                !.entry = <<inp>>]
    /\ learning' = LedgerAfterQuery(learning, filename,
                                    Match(decisions, learning, filename, inp).folder)
    /\ decisions' = DecisionsAfterQuery(decisions, filename)
    /\ UNCHANGED scoreFrame

CombineScores == {0, Pct(50) - 1, Pct(50), Pct(90) - 1, Pct(90), One}
CombineMemories == {0, 1, Pct(50), One}
CombineWeights == {2, 4, 10}

\* compute_confidence(memory_score, token_score, fuzzy_score, content_score,
\*                    file_type_weight)
Combine(memory, token, fuzzy, content, ftw) ==
    /\ ev' = [NoEv EXCEPT
                !.op = "combine",
                !.match = <<[memory |-> memory, token |-> token, fuzzy |-> fuzzy,
                             content |-> content, file_type_weight |-> ftw,
                             confidence |-> ComputeConfidence(memory, token, fuzzy,
                                                              content, ftw)]>>]
    /\ UNCHANGED <<decisions, learning, scoreFrame>>

DecideConfidences ==
    {0, Pct(39), Pct(40) - 1, Pct(40), Pct(40) + 1, Pct(60), Pct(85) - 1, Pct(85),
     Pct(85) + 1, One}
DecideThresholds == {<<Pct(85), Pct(40)>>, <<Pct(60), Pct(40)>>, <<One, Pct(60)>>}

\* action = decide_action(confidence, AUTO_MOVE_TH, SUGGEST_TH)
Decide(confidence, th) ==
    /\ ev' = [NoEv EXCEPT
                !.op = "decide",
                !.match = <<[confidence |-> confidence, auto |-> th[1],
                             suggest |-> th[2],
                             action |-> DecideAction(confidence, th[1], th[2])]>>]
    /\ UNCHANGED <<decisions, learning, scoreFrame>>

NextScore ==
    \/ \E k \in 1..Len(LedgerRows) : ScoreRecord(k)
    \/ ScoreRemember
    \/ \E b \in ScoreBases, f \in Names, d \in {F1, F2} : Evaluate(b, f, d)
    \/ \E f \in Names, inp \in ScoreInputs : ScoreMatch(f, inp)

SpecScore == Init /\ [][NextScore]_vars

-----------------------------------------------------------------------------
(* SpecPolicy: compute_confidence and decide_action, which read no table,  *)
(* called on inputs drawn from the sets above, and match on an empty        *)
(* database with a classifier that is down, which comes to the fallback    *)
(* scan, for every answer of rapidfuzz and of the content extractors below; *)
(* and token_overlap_score on the texts below.                              *)

\* texts handed to token_overlap_score, as the tokens re.findall yields
OverlapTexts ==
    {<<>>, <<"econ">>, <<"misc">>, <<"pdf">>, <<"econ", "econ">>,
     <<"econ", "pdf">>, <<"econ", "misc">>, <<"misc", "pdf">>,
     <<"econ", "misc", "pdf">>}

\* token_overlap_score(filename, folder_name)
Overlap(fileText, folderText) ==
    /\ ev' = [NoEv EXCEPT
                !.op = "overlap",
                !.match = <<[filename |-> fileText, folder_name |-> folderText,
                             score |-> TokenOverlapScore(fileText, folderText)]>>]
    /\ UNCHANGED <<decisions, learning, scoreFrame>>

FuzzyAnswers == {0, 50, 100}        \* fuzz.partial_ratio, percent
FolderTables(answers) == [{F1, F2} -> answers]

PolicyScanInputs ==
    {[llm |-> LlmRaised, fuzzy |-> fz, cfuzzy |-> cf, content |-> c] :
        fz \in FolderTables(FuzzyAnswers), cf \in FolderTables({0, 90, 100}),
        c \in {<<>>, <<"misc">>}}

NextPolicy ==
    \/ \E m \in CombineMemories, t \in CombineScores, f \in CombineScores,
          c \in {0, One}, w \in CombineWeights : Combine(m, t, f, c, w)
    \/ \E c \in DecideConfidences, th \in DecideThresholds : Decide(c, th)
    \/ \E f \in Names, inp \in PolicyScanInputs : ScoreMatch(f, inp)
    \/ \E fileText \in OverlapTexts, folderText \in OverlapTexts :
          Overlap(fileText, folderText)

SpecPolicy == Init /\ [][NextPolicy]_vars

-----------------------------------------------------------------------------
(* Properties of the matcher and the learning functions, checked under     *)
(* SpecScore.                                                               *)

Called == ev.match[1]       \* the call ev holds, when ev.op is a call

CandidateNames == {Basename(AvailableFolders[i]) : i \in 1..Len(AvailableFolders)}

\* the classifier failed: it raised, is disabled, has no credential, sent an
\* unparsable payload, or named a folder that is no candidate
ClassifierFailed(resp) ==
    IF resp \in LlmFailures THEN TRUE ELSE resp[1] \notin CandidateNames

C12_ConfidenceInUnitInterval ==
    ev.op = "match" => (Called.confidence >= 0 /\ Called.confidence <= One)

PairRows(filename, folder, action) ==
    {i \in 1..Len(learning) : learning[i] = LearnRow(filename, folder, action)}

FolderRows(folder, action) ==
    {i \in 1..Len(learning) : learning[i].folder = folder /\ learning[i].action = action}

\* C15: for a pair with a accept rows and r choose rows the pair-specific
\* pass returns clamp(base + min(0.10 a, 0.50) - min(0.40 r, 0.50), 0, 1),
\* and base itself when the pair has no row at all.
C15_PairAdjustment ==
    ev.op = "learn" =>
        LET filename == Basename(ev.path)
            a == Cardinality(PairRows(filename, ev.target, "accept"))
            r == Cardinality(PairRows(filename, ev.target, "choose"))
            g == Cardinality(PairRows(filename, ev.target, "ignore"))
            boost == IF a >= 5 THEN Pct(50) ELSE a * Pct(10)
            decay == IF r >= 2 THEN Pct(50) ELSE r * Pct(40)
            sum == Called.base + boost - decay
        IN Called.pair = IF a + r + g = 0 THEN Called.base
                         ELSE IF sum < 0 THEN 0
                         ELSE IF sum > One THEN One
                         ELSE sum

\* six accepts and no reject: the adjustment is +0.50
C15_Witness ==
    /\ ev.op = "learn"
    /\ Cardinality(PairRows(Basename(ev.path), ev.target, "accept")) = 6
    /\ PairRows(Basename(ev.path), ev.target, "choose") = {}
    /\ Called.base = Pct(45)
    /\ Called.pair = Pct(95)

\* C16: appending an ignore row to the ledger changes the value of
\* get_confidence_with_learning for no filename, folder and base in [0, 1].
C16_IgnoreNeutral ==
    [][(ev'.op = "record" /\ learning'[Len(learning')].action = "ignore")
          => \A b \in UnitBases, f \in Names, d \in {F1, F2} :
                 GetConfidenceWithLearning(learning', b, f, d)
                     = GetConfidenceWithLearning(learning, b, f, d)]_vars

\* C17: the reputation pass works on the value of the pair-specific pass;
\* with fewer than 5 rows for the folder it returns that value, otherwise
\* that value plus (accept_rate - reject_rate) * 0.05, clamped to [0, 1],
\* which is never further than 0.05 from a value that is a confidence
\* (one in [0, 1]).
C17_ReputationAfterPair ==
    ev.op = "learn" =>
        LET a == Cardinality(FolderRows(ev.target, "accept"))
            r == Cardinality(FolderRows(ev.target, "choose"))
            g == Cardinality(FolderRows(ev.target, "ignore"))
            total == a + r + g
            sum == Called.pair + ((a - r) * Pct(5)) \div total
        IN IF total < 5 THEN Called.confidence = Called.pair
           ELSE /\ ((a - r) * Pct(5)) % total = 0
                /\ Called.confidence = IF sum < 0 THEN 0
                                       ELSE IF sum > One THEN One ELSE sum
                /\ Called.pair \in 0..One
                       => /\ Called.confidence - Called.pair <= Pct(5)
                          /\ Called.pair - Called.confidence <= Pct(5)

\* both passes acted: the pair-specific pass raised the base and was
\* clamped, the reputation pass then lowered the value
C17_Witness ==
    /\ ev.op = "learn"
    /\ Len(learning) >= 5
    /\ Called.base = One
    /\ Called.pair = One
    /\ PairRows(Basename(ev.path), ev.target, "accept") # {}
    /\ Called.confidence < Called.pair

-----------------------------------------------------------------------------
(* Properties of the combiner and the decision policy, checked under       *)
(* SpecPolicy.                                                              *)

\* C13: with autoThreshold > suggestThreshold the policy answers auto_move
\* exactly when confidence >= autoThreshold, ask exactly when
\* suggestThreshold <= confidence < autoThreshold, and ignore otherwise.
C13_DecidePartition ==
    ev.op = "decide" =>
        /\ Called.auto > Called.suggest
        /\ Called.action \in {"auto_move", "ask", "ignore"}
        /\ Called.action = "auto_move" <=> Called.confidence >= Called.auto
        /\ Called.action = "ask" <=> (/\ Called.suggest <= Called.confidence
                                      /\ Called.confidence < Called.auto)
        /\ Called.action = "ignore" <=> Called.confidence < Called.suggest

\* decide(0.85, 0.85, 0.4) is auto_move
C13_Witness ==
    /\ ev.op = "decide"
    /\ Called.confidence = Pct(85)
    /\ Called.auto = Pct(85)
    /\ Called.suggest = Pct(40)
    /\ Called.action = "auto_move"

\* C14: with memory > 0 compute_confidence returns memory, whatever the
\* other scores and the file type weight are.
C14_MemoryWins ==
    (ev.op = "combine" /\ Called.memory > 0) => Called.confidence = Called.memory

\* a remembered 0.5 against full scores of a low-prior file type
C14_Witness ==
    /\ ev.op = "combine"
    /\ Called.memory = Pct(50)
    /\ Called.token = One
    /\ Called.fuzzy = One
    /\ Called.file_type_weight = 2
    /\ Called.confidence = Pct(50)

-----------------------------------------------------------------------------
(* actions/undo.py: undo_move, run from undo_cli.py in a process of its    *)
(* own, at any moment of the control loop.                                  *)

LastMove == 0               \* move_id = None: the most recent move

\* "row = c.fetchone()": the row asked for, as a sequence of at most one row
UndoRow(history, move_id) ==
    IF move_id = LastMove
    THEN IF history = <<>> THEN <<>> ELSE <<history[Len(history)]>>
    ELSE SelectSeq(history, LAMBDA e : e.id = move_id)

\* an undo that does not look at the original location before it moves
UndoBlockedNoSourceCheck(files, row) ==
    IF row.dst \notin files THEN "missing_destination" ELSE "none"

\* the two checks before the move back
UndoBlocked(files, row) ==
    IF row.dst \notin files THEN "missing_destination"
    ELSE IF row.src \in files THEN "source_occupied"
    ELSE "none"

\* a compensating record against the folder the file came from
UndoSuggestedFolderSrc(row) == Dirname(row.src)

\* "suggested_folder = os.path.dirname(dst)"
UndoSuggestedFolder(row) == Dirname(row.dst)

UndoEv(rows, out) ==
    [NoEv EXCEPT !.op = "undo", !.entry = rows, !.outcome = out]

undoFrame == <<now, arrivals, ignored, patterns, queue, bmVars, watchVars, paused, pc,
               ctx, histVars>>

\* raised: shutil.move raises (the file is held by another process); the
\* except clause closes the connection without a commit
UndoMove(move_id, raised) ==
    /\ LET rows == UndoRow(undoHistory, move_id)
       IN IF rows = <<>>
          THEN /\ ev' = UndoEv(rows, "no_entry")
               /\ UNCHANGED <<fs, decisions, learning, undoHistory>>
          ELSE IF UndoBlocked(fs, rows[1]) # "none"
          THEN /\ ev' = UndoEv(rows, UndoBlocked(fs, rows[1]))
               /\ UNCHANGED <<fs, decisions, learning, undoHistory>>
          ELSE IF raised
          THEN /\ ev' = UndoEv(rows, "error")
               /\ UNCHANGED <<fs, decisions, learning, undoHistory>>
          ELSE /\ fs' = (fs \ {rows[1].dst}) \cup {rows[1].src}
               /\ undoHistory' = DeleteUndoEntry(undoHistory, rows[1].id)
               /\ decisions' = DeleteDecision(decisions, rows[1].filename)
               /\ learning' = SaveLearning(learning, rows[1].filename,
                                           UndoSuggestedFolder(rows[1]), "choose")
               /\ ev' = UndoEv(rows, "success")
    /\ UNCHANGED undoFrame

-----------------------------------------------------------------------------
(* SpecUndo: the handlers and the retry pass of Spec, and the undoing of    *)
(* their moves.  Two files of the same name are dropped (again, once moved  *)
(* away), files vanish from wherever they are, and undo_move is called for  *)
(* the last move or for an id.                                              *)

UndoPaths == {AsPath(EconPdf), Join(DL, EconPdf)}

UndoIds == {LastMove, 1, 2}

UndoArrive == \E p \in UndoPaths : FlowArrive(p)

UndoVanish == Idle /\ \E p \in fs : Vanish(p)

NextUndo ==
    \/ UndoArrive
    \/ FlowDispatch
    \/ FlowNoBatch
    \/ Handlers
    \/ Retries
    \/ FlowTick
    \/ UndoVanish
    \/ \E id \in UndoIds, raised \in BOOLEAN : UndoMove(id, raised)

SpecUndo == Init /\ [][NextUndo]_vars

-----------------------------------------------------------------------------
(* SpecHistory: the undo history over more moves than it holds.  One file  *)
(* after another is dropped at the same path, the classifier is sure of    *)
(* its folder, the file system answers each move as it likes, a moved file  *)
(* is taken away from its folder, and the last move may be undone (the     *)
(* file put back stays where it is).                                        *)

HistoryVanish == Idle /\ \E p \in fs : Dirname(p) = F1 /\ Vanish(p)

NextHistory ==
    \/ \E p \in RetryPaths : Arrive(p, MaxDrops)
    \/ RetryDispatch
    \/ FlowNoBatch
    \/ Retries
    \/ FlowTick
    \/ HistoryVanish
    \/ \E raised \in BOOLEAN : UndoMove(LastMove, raised)

SpecHistory == Init /\ [][NextHistory]_vars

-----------------------------------------------------------------------------
(* Properties of undo_move, checked under SpecUndo.                         *)

\* C19: an undo_move that succeeds puts the file of its history row back
\* at the path it was moved from, deletes the Decision row of its filename
\* and nothing else of the decisions, appends exactly one choose record, for
\* that filename against the folder the file had been moved to, and deletes
\* the history row; and when it undoes the move made by the step before it,
\* that path and that folder are the source and the target of the move.
C19_UndoRoundTrip ==
    [][(ev'.op = "undo" /\ ev'.outcome = "success") =>
          LET row == ev'.entry[1] IN
          /\ row \in SeqToSet(undoHistory)
          /\ row.dst \in fs
          /\ fs' = (fs \ {row.dst}) \cup {row.src}
          /\ row.src \in fs' /\ row.dst \notin fs'
          /\ decisions' = [decisions EXCEPT ![row.filename] = None]
          /\ learning' = Append(learning,
                                LearnRow(row.filename, Dirname(row.dst), "choose"))
          /\ row \notin SeqToSet(undoHistory')
          /\ Len(undoHistory') = Len(undoHistory) - 1
          /\ (/\ ev.outcome = "success"
              /\ ev.op # "undo"
              /\ row = undoHistory[Len(undoHistory)])
                 => /\ row.src = ev.path
                    /\ row.filename = Basename(ev.path)
                    /\ Dirname(row.dst) = ev.target]_vars

\* a file moved out of the downloads directory and put back: its accept
\* record is followed by the compensating choose record
C19_Witness ==
    /\ ev.op = "undo"
    /\ ev.outcome = "success"
    /\ ev.entry[1].src = Join(DL, EconPdf)
    /\ Join(DL, EconPdf) \in fs
    /\ GetDecision(decisions, EconPdf) = None
    /\ Len(learning) = 2
    /\ learning[1] = LearnRow(EconPdf, F1, "accept")
    /\ learning[2] = LearnRow(EconPdf, F1, "choose")

UndoRefusals == {"no_entry", "missing_destination", "source_occupied"}

\* C20: an undo_move that finds no history row for its id, or whose moved
\* file is not at its destination any more, or whose original path holds a
\* file, fails and moves no file and leaves the undo history, the decisions
\* and the learning ledger as they were.
C20_UndoRefusedChangesNothing ==
    [][ev'.op = "undo" =>
          /\ (\/ ev'.entry = <<>>
              \/ ev'.entry[1] \notin SeqToSet(undoHistory)
              \/ ev'.entry[1].dst \notin fs
              \/ ev'.entry[1].src \in fs)
                 => ev'.outcome \in UndoRefusals
          /\ ev'.outcome \in UndoRefusals
                 => /\ fs' = fs
                    /\ undoHistory' = undoHistory
                    /\ decisions' = decisions
                    /\ learning' = learning]_vars

\* a file was dropped again at the path of a file that had been moved away:
\* the undo of that move is refused, its history row stays
C20_Witness ==
    /\ ev.op = "undo"
    /\ ev.outcome = "source_occupied"
    /\ ev.entry[1] \in SeqToSet(undoHistory)
    /\ ev.entry[1].dst \in fs
    /\ GetDecision(decisions, EconPdf) = F1

-----------------------------------------------------------------------------
(* Properties of the tables, checked under SpecUndo.                        *)

\* C21: whatever the handlers, the retry pass, the ignore prompts and
\* undo_move do, the learning ledger only grows at its end, by one row a
\* step: no row already in it is changed or removed; and the only row an
\* undo_move adds is one choose row, for the file it moved back against the
\* folder that file had been moved to.
C21_LedgerAppendOnly ==
    [][/\ IsPrefix(learning, learning')
       /\ Len(learning') <= Len(learning) + 1
       /\ ev'.op = "undo"
              => \/ learning' = learning
                 \/ /\ ev'.outcome = "success"
                    /\ learning' = Append(learning,
                           LearnRow(ev'.entry[1].filename, Dirname(ev'.entry[1].dst),
                                    "choose"))]_vars

\* a file was moved by the retry pass after an earlier move had been
\* recorded, and the retried move was undone: the ledger holds the two
\* accept rows and, after them, the choose row
C21_Witness ==
    /\ ev.op = "undo"
    /\ ev.outcome = "success"
    /\ waited[ev.entry[1].src] # <<>>
    /\ Len(learning) = 3
    /\ learning[1].action = "accept"
    /\ learning[2].action = "accept"
    /\ learning[3] = LearnRow(ev.entry[1].filename, Dirname(ev.entry[1].dst), "choose")

\* C22: the decisions hold at most one folder for a filename, and a
\* remembered folder is never replaced by another: once a filename has a
\* row, the only step that changes it is an undo_move, which deletes it.
C22_NeverUpdatedInPlace ==
    [][\A n \in Names :
          (decisions[n] # None /\ decisions'[n] # decisions[n])
              => (ev'.op = "undo" /\ decisions'[n] = None)]_vars

-----------------------------------------------------------------------------
(* Properties of the undo history, checked under SpecHistory.               *)

\* the step is a move made by a handler or by the retry pass
Moved == ev'.outcome = "success" /\ ev'.op # "undo"

\* C23: every move that succeeds adds one entry to the undo history, its
\* newest, holding the filename, the path moved from and the path moved to;
\* no other step adds one; the history never holds more than
\* MAX_UNDO_HISTORY = 10 entries: an entry added to a full history evicts
\* the oldest and keeps the others in their order.
C23_HistoryBounded ==
    [][/\ Len(undoHistory') <= 10
       /\ Moved =>
              LET newest == undoHistory'[Len(undoHistory')]
                  kept == SubSeq(undoHistory', 1, Len(undoHistory') - 1)
              IN /\ undoHistory' # <<>>
                 /\ newest.filename = Basename(ev'.path)
                 /\ newest.src = ev'.path
                 /\ Dirname(newest.dst) = ev'.target
                 /\ newest.dst \in fs' \ fs
                 /\ \A i \in 1..Len(undoHistory) : undoHistory[i].id < newest.id
                 /\ kept = IF Len(undoHistory) < 10 THEN undoHistory
                           ELSE SubSeq(undoHistory, 2, Len(undoHistory))
       /\ ~Moved => Len(undoHistory') <= Len(undoHistory)]_vars

\* the twelfth move was made by the retry pass: the history holds the ten
\* newest entries, the first two are gone
C23_Witness ==
    /\ ev.op = "retry"
    /\ ev.outcome = "success"
    /\ Len(undoHistory) = MaxUndoHistory
    /\ undoHistory[1].id = 3
    /\ undoHistory[MaxUndoHistory].id = 12

-----------------------------------------------------------------------------
(* Properties of the ignore tables, checked under SpecStored.               *)

\* the handler step looks at a file whose name carries an ignore mark or
\* matches an ignore pattern
LooksAtIgnored ==
    /\ ev'.op \in {"single", "stage1"}
    /\ \/ Basename(ev'.path) \in ignored
       \/ \E pat \in patterns : Basename(ev'.path)[2] = pat

\* C24: when handle_single_file, or the first pass of handle_batch, comes
\* to a file whose name carries an ignore mark or matches an ignore pattern
\* at that moment, it does not call match for it, does not move or queue
\* it, does not make it a suggestion or prompt for it, and writes no
\* decisions row and no learning row (a name that matched a pattern is
\* marked); and a step that marks a name ignored writes no learning row.
C24_IgnoredNeverProcessed ==
    [][/\ LooksAtIgnored
              => /\ ev'.match = <<>>
                 /\ ev'.outcome = "none"
                 /\ fs' = fs
                 /\ queue' = queue
                 /\ undoHistory' = undoHistory
                 /\ decisions' = decisions
                 /\ learning' = learning
                 /\ Basename(ev'.path) \in ignored'
                 /\ pc' \notin {"single_ask", "single_custom"}
                 /\ ev'.op = "stage1"
                        => Len(ctx'.suggestions) <= Len(ctx.suggestions)
       /\ ignored' # ignored
              => /\ learning' = learning
                 /\ decisions' = decisions
                 /\ fs' = fs]_vars

\* the first pass of a batch has skipped a file of the downloads directory
\* whose name matched a pattern and carried no mark, and has marked it
C24_Witness ==
    /\ ev.op = "stage1"
    /\ ev.match = <<>>
    /\ Dirname(ev.path) = DL
    /\ ev.path \in fs
    /\ ignored = {Basename(ev.path)}
    /\ Basename(ev.path)[2] \in patterns
    /\ wouldWrite = NoWould
    /\ learning # <<>>

-----------------------------------------------------------------------------
(* Properties of the fallback scan, checked under SpecPolicy.               *)

\* max(token, 0.7 * fuzzy, content) * file_type_weight of candidate i for
\* the call ev holds
WeightedScore(i) ==
    LET folderName == <<Basename(AvailableFolders[i])>>
        inp == ev.entry[1]
        token == TokenOverlapScore(Basename(ev.path), folderName)
        fuzzy == Pct(inp.fuzzy[AvailableFolders[i]])
        content == IF inp.content = <<>> THEN 0
                   ELSE Max(TokenOverlapScore(inp.content, folderName),
                            Pct(inp.cfuzzy[AvailableFolders[i]]))
        dampened == (7 * fuzzy) \div 10
        score == IF token >= dampened /\ token >= content THEN token
                 ELSE IF dampened >= content THEN dampened ELSE content
    IN (score \div 10) * FileTypeWeight(Basename(ev.path))

\* C25: the folder the fallback scan returns is the first candidate, in
\* enumeration order, whose weighted score is greater than that of every
\* candidate before it and not less than that of any candidate after it;
\* if no candidate scores above 0 the folder is none and the confidence 0.
C25_FirstBestWins ==
    (ev.op = "match" /\ Called.method = "string") =>
        LET n == Len(AvailableFolders)
        IN IF \A i \in 1..n : WeightedScore(i) <= 0
           THEN Called.folder = None /\ Called.confidence = 0
           ELSE \E i \in 1..n :
                    /\ Called.folder = AvailableFolders[i]
                    /\ WeightedScore(i) > 0
                    /\ \A j \in 1..(i - 1) : WeightedScore(j) < WeightedScore(i)
                    /\ \A j \in (i + 1)..n : WeightedScore(j) <= WeightedScore(i)

\* two candidates score the same, above 0: the first one is returned
C25_Witness ==
    /\ ev.op = "match"
    /\ Called.method = "string"
    /\ WeightedScore(1) = WeightedScore(2)
    /\ WeightedScore(1) > 0
    /\ Called.folder = AvailableFolders[1]

-----------------------------------------------------------------------------
(* Monotonicity of compute_confidence, checked under SpecPolicy on every    *)
(* pair of successive calls.                                                *)

\* 0.4 * token + 0.3 * fuzzy + 0.3 * content of a recorded call
Blend(call) == (4 * call.token + 3 * call.fuzzy + 3 * call.content) \div 10

\* call b has the arguments of call a but for one of token, fuzzy and
\* content, which is not lower
RaisesOneScore(a, b) ==
    /\ a.memory = 0
    /\ b.memory = 0
    /\ a.file_type_weight = b.file_type_weight
    /\ \/ a.token <= b.token /\ a.fuzzy = b.fuzzy /\ a.content = b.content
       \/ a.token = b.token /\ a.fuzzy <= b.fuzzy /\ a.content = b.content
       \/ a.token = b.token /\ a.fuzzy = b.fuzzy /\ a.content <= b.content

\* C26: with memory = 0, neither the blend 0.4*token + 0.3*fuzzy +
\* 0.3*content nor the value compute_confidence returns goes down when one
\* of token, fuzzy and content is raised and the other two are held fixed.
C26_ConfidenceMonotone ==
    [][(/\ ev.op = "combine"
        /\ ev'.op = "combine"
        /\ RaisesOneScore(ev.match[1], ev'.match[1]))
       => /\ Blend(ev.match[1]) <= Blend(ev'.match[1])
          /\ ev.match[1].confidence <= ev'.match[1].confidence]_vars

\* the fuzzy score has just crossed 0.9 with a token score of 0.5: the
\* blend is 0.47 and the boost has raised the confidence over it
C26_Witness ==
    /\ ev.op = "combine"
    /\ Called.memory = 0
    /\ Called.token = Pct(50)
    /\ Called.fuzzy = Pct(90)
    /\ Called.content = 0
    /\ Called.file_type_weight = 10
    /\ Blend(Called) = Pct(47)
    /\ Called.confidence = Pct(75)

-----------------------------------------------------------------------------
(* Properties of token_overlap_score, checked under SpecPolicy.             *)

\* C27: for non-empty token sets token_overlap_score is max(Jaccard,
\* coverage), which is the coverage |intersection| / |folder tokens|; it is
\* 1 exactly when every folder token is a filename token; it is 0 when
\* either token set is empty.
C27_OverlapIsCoverage ==
    ev.op = "overlap" =>
        LET fileTokens == SeqToSet(Called.filename)
            folderTokens == SeqToSet(Called.folder_name)
            shared == Cardinality(fileTokens \cap folderTokens)
            all == Cardinality(fileTokens \cup folderTokens)
        IN IF fileTokens = {} \/ folderTokens = {} THEN Called.score = 0
           ELSE /\ (shared * One) \div all
                       <= (shared * One) \div Cardinality(folderTokens)
                /\ Called.score = (shared * One) \div Cardinality(folderTokens)
                /\ Called.score = One <=> folderTokens \subseteq fileTokens

\* a one-token folder name inside a three-token filename: Jaccard is 1/3,
\* the score is 1
C27_Witness ==
    /\ ev.op = "overlap"
    /\ Called.filename = <<"econ", "misc", "pdf">>
    /\ Called.folder_name = <<"econ">>
    /\ Called.score = One

-----------------------------------------------------------------------------
(* Properties of the second stage of handle_batch, checked under Spec.      *)

\* C28: when stage 2 of handle_batch comes to a suggested file for which
\* display_batch_summary returned a decision, it carries that decision out
\* (accept: a move to the suggested folder; choose: a move to the chosen
\* folder; ignore: the name is marked ignored) and does not skip the file
\* as having no decision, whatever the paths of the batch.
C28_DecisionsCarriedOut ==
    [][(pc = "stage2" /\ ctx.suggestions[ctx.j][1] \in DOMAIN ctx.ud) =>
          LET file_path == ctx.suggestions[ctx.j][1]
              suggested_folder == ctx.suggestions[ctx.j][2]
              decision == ctx.ud[file_path]
          IN /\ ev'.path = file_path
             /\ decision[1] = "accept" =>
                    ev'.op = "stage2_accept" /\ ev'.target = suggested_folder
             /\ decision[1] = "choose" =>
                    ev'.op = "stage2_choose" /\ ev'.target = decision[2]
             /\ decision[1] = "ignore" =>
                    ev'.op = "stage2_ignore" /\ Basename(file_path) \in ignored']_vars

-----------------------------------------------------------------------------
(* Properties of the watcher, checked under SpecWatch.                      *)

\* C29: a path is handed to the batch window at most once per arrival:
\* neither a duplicate creation event, nor a modification event, nor the
\* periodic scan has a path handed over again that was sent to a batch or
\* processed since the file appeared.
C29_HandedOverOnce == \A p \in AllPaths : handedOver[p] <= 1

\* the paths process_ready_files hands over in this pass of the loop
HandsOver == IF ev'.op \in {"loop", "loop_paused"} THEN SeqToSet(ev'.batch) ELSE {}

\* C30: whatever the observer thread does meanwhile, process_ready_files
\* hands a file over only if it exists and no creation or modification
\* event for it was received in the last debounce_seconds; a tracked file
\* that is gone when its debounce is over is dropped from tracking and not
\* handed over.
C30_DebounceRespected ==
    [][pc = "top" =>
          /\ \A p \in HandsOver :
                 /\ p \in fs
                 /\ ev'.path # p
                 /\ lastEvent[p] = NoTime \/ now - lastEvent[p] >= DebounceSeconds
          /\ \A i \in 1..Len(lastSeen) :
                 (Stable(lastSeen[i], now) /\ lastSeen[i].path \notin fs) =>
                     /\ ~Tracked(lastSeen', lastSeen[i].path)
                     /\ lastSeen[i].path \notin HandsOver]_vars

-----------------------------------------------------------------------------
(* Liveness of the batch window, checked under SpecDrain.                   *)

\* the window holds files and window_seconds have passed since the last one
Overdue == bmFiles # <<>> /\ bmTLast # NoTime /\ now - bmTLast >= BatchWindowSeconds

\* C31: every file added to the batch window is drained in the end: once
\* window_seconds have passed with no further arrival, the control loop
\* drains the window in its next iteration (no prompt is pending while the
\* window holds a file, and the program has not been ended at a prompt).
C31_EventuallyDrained == Overdue ~> (~Overdue \/ pc = "stopped")

\* a second window has been drained, into handle_single_file, after the
\* first one and its debounce
C31_Witness ==
    /\ ev.op = "single"
    /\ bmFiles = <<>>
    /\ Cardinality(processedFiles) = 2
    /\ now > BatchWindowSeconds + DebounceSeconds + 2

-----------------------------------------------------------------------------
(* Liveness of the retry queue, checked under SpecRetryLive.                *)

RECURSIVE RemainingWaits(_)
\* the waits an entry with this many attempts still has before it is given up
RemainingWaits(attempts) ==
    IF attempts >= MaxRetries THEN 0
    ELSE WaitTime(attempts) + RemainingWaits(attempts + 1)

\* path is queued, and its last wait is over within the horizon of the clock
\* if each retry comes as soon as it is ready
QueuedInTime(path) ==
    /\ QHas(queue, path)
    /\ QGet(queue, path).last_retry + RemainingWaits(QGet(queue, path).attempts)
           <= MaxTimeRetry

\* C32: every entry of the retry queue is removed in the end (by a move
\* that succeeds, by giving up after max_retries renewed locks, by another
\* failure, or because the source is gone), as long as the control loop
\* keeps running and time advances; a retry that comes late can only push
\* the end of the entry's waits past the horizon of the clock.
C32_EntryEventuallyRemoved ==
    \A path \in RetryPaths : QueuedInTime(path) ~> ~QueuedInTime(path)

\* the third retry of a file has succeeded and its entry is gone
C32_Witness ==
    /\ ev.op = "retry"
    /\ ev.outcome = "success"
    /\ ~QHas(queue, ev.path)
    /\ waited[ev.path] = <<5, 10, 20>>

\* C33: a folder that match returns with method llm or string is one of the
\* candidates enumerated for the call, an immediate subdirectory of a scope
\* root; a name the classifier sent that is the base name of no candidate is
\* never the base name of the folder returned.
C33_FolderIsCandidate ==
    (ev.op = "match" /\ Called.method \in {"llm", "string"} /\ Called.folder # None)
        => /\ \E i \in 1..Len(AvailableFolders) : Called.folder = AvailableFolders[i]
           /\ LET resp == ev.entry[1].llm
              IN (resp \notin LlmFailures /\ resp[1] \notin CandidateNames)
                    => Basename(Called.folder) # resp[1]

\* the classifier named a folder that is no candidate with a positive
\* confidence, and match returned a candidate found by the fallback scan
C33_Witness ==
    /\ ev.op = "match"
    /\ ev.entry[1].llm = <<"zed", 90>>
    /\ Called.method = "string"
    /\ Called.folder = F1

\* C34: the retry queue holds at most one entry per file path, and while a
\* path stays in the queue its attempts counter never decreases and its
\* stored target folder and original choice are not replaced: a second
\* locked failure reported through add for a queued path does not reset the
\* entry.
QueuedTwice == \E p \in AllPaths : Cardinality(QIndex(queue, p)) > 1

EntryKept(p) ==
    (QHas(queue, p) /\ QHas(queue', p))
        => /\ QGet(queue', p).attempts >= QGet(queue, p).attempts
           /\ QGet(queue', p).folder = QGet(queue, p).folder
           /\ QGet(queue', p).user_choice = QGet(queue, p).user_choice

C34_QueuedEntryKept ==
    [][~QueuedTwice' /\ \A p \in AllPaths : EntryKept(p)]_vars

\* C35: after every completed process_locked_retries pass each entry still in
\* the retry queue has 0 <= attempts < max_retries: an entry whose attempts
\* has reached max_retries is not left in the queue, and get_ready_files
\* does not return one.
PassCompleted == pc \notin {"retry", "retrying"}

C35_AttemptsBelowMax ==
    /\ PassCompleted
          => \A i \in 1..Len(queue) :
                queue[i].attempts >= 0 /\ queue[i].attempts < MaxRetries
    /\ \A i \in 1..Len(GetReadyFiles(queue, now)) :
          QGet(queue, GetReadyFiles(queue, now)[i].file_path).attempts < MaxRetries

\* a pass has just counted the fifth locked attempt of an entry and removed it
C35_Witness ==
    /\ PassCompleted
    /\ ev.op = "retry"
    /\ ev.outcome = "locked"
    /\ Len(waited[ev.path]) = MaxRetries
    /\ ~QHas(queue, ev.path)

\* compute_confidence(0, token, fuzzy, content, file_type_weight) on the
\* scores of the i-th candidate of the recorded call
BaseConfidence(i) ==
    LET c == Candidate(Basename(ev.path), AvailableFolders[i], ev.entry[1])
    IN ComputeConfidence(0, c.token, c.fuzzy, c.content,
                         FileTypeWeight(Basename(ev.path)))

\* C36: the folder the fallback scan returns is a candidate of maximal
\* confidence: the base confidence computed from the scores of the selected
\* candidate is at least the base confidence that the scores of every other
\* candidate would give.
C36_MaximalConfidence ==
    (ev.op = "match" /\ Called.method = "string" /\ Called.folder # None) =>
        \A i, j \in 1..Len(AvailableFolders) :
            Called.folder = AvailableFolders[i] => BaseConfidence(i) >= BaseConfidence(j)

\* C37: feedback is monotone.  At a fixed base confidence, appending a choose
\* row against folder d never raises, and appending an accept row for folder
\* d never lowers, the value of get_confidence_with_learning for any
\* filename with folder d.
C37_FeedbackMonotone ==
    [][ev'.op = "record"
          => LET row == learning'[Len(learning')]
             IN \A b \in UnitBases, f \in Names :
                    /\ row.action = "choose"
                          => GetConfidenceWithLearning(learning', b, f, row.folder)
                                <= GetConfidenceWithLearning(learning, b, f, row.folder)
                    /\ row.action = "accept"
                          => GetConfidenceWithLearning(learning', b, f, row.folder)
                                >= GetConfidenceWithLearning(learning, b, f, row.folder)]_vars

\* a handler comes to a file whose name has a decisions row and neither
\* carries an ignore mark nor matches an ignore pattern
LooksAtRemembered ==
    /\ ev'.op \in {"single", "stage1"}
    /\ decisions[Basename(ev'.path)] # None
    /\ ~IsFileIgnored(ignored, Basename(ev'.path))
    /\ ~MatchesIgnorePattern(patterns, Basename(ev'.path))

\* C38: while a filename has a decisions row, every file of that name that a
\* handler comes to and that is not ignored is auto-moved to the remembered
\* folder, for every auto threshold up to 1.0, whatever the classifier
\* answers and whatever the ledger holds; handle_single_file opens no prompt
\* and the first pass of handle_batch makes no suggestion of it.
C38_RememberedAutoMoved ==
    [][LooksAtRemembered
          => /\ ev'.target = decisions[Basename(ev'.path)]
             /\ ev'.outcome \in Outcomes
             /\ ev'.op = "single" => pc' \notin PromptPcs
             /\ ev'.op = "stage1" => ctx'.suggestions = ctx.suggestions
             /\ \A th \in DecideThresholds :
                    DecideAction(ev'.match[1].confidence, th[1], th[2]) = "auto_move"]_vars

\* a file whose remembered folder the ledger holds a rejection of, and for
\* which the classifier is not asked, was moved to the remembered folder
C38_Witness ==
    /\ ev.op \in {"single", "stage1"}
    /\ ev.mem = F2
    /\ ev.target = F2
    /\ ev.outcome = "success"
    /\ \E i \in 1..Len(learning) :
           /\ learning[i].filename = Basename(ev.path)
           /\ learning[i].folder = F2
           /\ learning[i].action = "choose"

\* C39: a successful undo_move removes its entry from the undo history and
\* appends exactly one choose row, so the same move is undone at most once:
\* the history holds no entry of that id afterwards, an undo_move that
\* follows a successful one finds either no entry or another one, and an
\* undo_move that finds no entry changes nothing.
C39_UndoneOnce ==
    [][ev'.op = "undo"
          => /\ ev'.outcome = "success"
                   => /\ UndoRow(undoHistory', ev'.entry[1].id) = <<>>
                      /\ Len(undoHistory') = Len(undoHistory) - 1
                      /\ Len(learning') = Len(learning) + 1
                      /\ learning'[Len(learning')].action = "choose"
             /\ (ev.op = "undo" /\ ev.outcome = "success" /\ ev'.entry # <<>>)
                   => ev'.entry[1].id # ev.entry[1].id
             /\ ev'.outcome = "no_entry"
                   => UNCHANGED <<fs, decisions, learning, undoHistory>>]_vars

\* the only move made so far was undone, and an undo_move after it found no
\* entry: the ledger holds the accept row of the move and one choose row
C39_Witness ==
    /\ ev.op = "undo"
    /\ ev.outcome = "no_entry"
    /\ undoHistory = <<>>
    /\ Len(learning) = 2
    /\ learning[1].action = "accept"
    /\ learning[2].action = "choose"
    /\ \A n \in Names : decisions[n] = None

====
